---- MODULE Spec2Model ----
(***************************************************************************)
(* A model of the snap image library (src/src/img): the Matrix container,  *)
(* the Image buffer with its three channel matrices, the seam carver and   *)
(* the geometric operations.  Every public operation is one action that    *)
(* runs the whole method on the current image; a Rust panic (failed        *)
(* assertion, expect/unwrap on None, slice or Vec index out of range,     *)
(* arithmetic underflow) ends the run and is recorded in `fault`; the      *)
(* expect of resize on an absent crop method is the fault "missing_crop". *)
(***************************************************************************)
EXTENDS Integers, Sequences, FiniteSets, TLC

VARIABLES img, pre, last, fault, removals

vars == <<img, pre, last, fault, removals>>

\* Largest width and height of an initial image, and the largest number of
\* its pixels that differ from the background colour.
MaxW == 4
MaxH == 4
MaxMarks == 1

\* Largest width and height of an image in a decoded PPM stream.
MaxSide == 2

Max2(a, b) == IF a > b THEN a ELSE b
Min2(a, b) == IF a < b THEN a ELSE b

\* The element of a one-element set.  { e(x) : x \in {v} } names the value v
\* as x inside e, as a `let` binding of the source does.
The(S) == CHOOSE x \in S : TRUE

---------------------------------------------------------------------------
(* Matrix<T>: width, height and the row-major Vec `datum`.  Rows and      *)
(* columns are 0-based as in the source; datum is a TLA+ sequence, so     *)
(* cell (row, col) is datum[row * width + col + 1].                        *)

NewFilled(width, height, value) ==
    [width |-> width, height |-> height,
     datum |-> [k \in 1..(width * height) |-> value]]

\* Index / IndexMut: &self.datum[row * self.width + col]; the Vec index
\* panics when it is not below datum.len().
InRange(m, row, col) == row * m.width + col < Len(m.datum)
At(m, row, col) == m.datum[row * m.width + col + 1]
Put(m, row, col, value) == [m EXCEPT !.datum[row * m.width + col + 1] = value]

\* fill_border panics when a border cell it writes is not in datum
\* (height - 1 or width - 1 underflows on an empty side).
FillBorderFault(m) ==
    \/ \E col \in 0..(m.width - 1) :
          m.height = 0 \/ ~InRange(m, 0, col) \/ ~InRange(m, m.height - 1, col)
    \/ \E row \in 0..(m.height - 1) :
          m.width = 0 \/ ~InRange(m, row, 0) \/ ~InRange(m, row, m.width - 1)

\* Faulty variant: only the first and the last row are filled.
FillBorderRowsOnly(m, value) ==
    [m EXCEPT !.datum =
        [k \in 1..Len(m.datum) |->
            IF (k - 1) \div m.width = 0 \/ (k - 1) \div m.width = m.height - 1
            THEN value ELSE m.datum[k]]]

FillBorder(m, value) ==
    [m EXCEPT !.datum =
        [k \in 1..Len(m.datum) |->
            LET row == (k - 1) \div m.width
                col == (k - 1) % m.width
            IN  IF row = 0 \/ row = m.height - 1 \/ col = 0 \/ col = m.width - 1
                THEN value ELSE m.datum[k]]]

\* Option<(usize, T)>
None == [some |-> FALSE, index |-> 0, val |-> 0]
Some(index, val) == [some |-> TRUE, index |-> index, val |-> val]

\* The scan of min_in_row_range: a strictly smaller value moves the minimum.
RECURSIVE MinScan(_, _, _, _, _, _)
MinScan(m, row, col, column_end, min_index, min_val) ==
    IF col >= column_end THEN Some(min_index, min_val)
    ELSE LET val == At(m, row, col)
         IN  IF val < min_val
             THEN MinScan(m, row, col + 1, column_end, col, val)
             ELSE MinScan(m, row, col + 1, column_end, min_index, min_val)

\* Faulty variant: an equal value moves the minimum too, so the last of
\* several equal minima is returned.
RECURSIVE MinScanLast(_, _, _, _, _, _)
MinScanLast(m, row, col, column_end, min_index, min_val) ==
    IF col >= column_end THEN Some(min_index, min_val)
    ELSE LET val == At(m, row, col)
         IN  IF val <= min_val
             THEN MinScanLast(m, row, col + 1, column_end, col, val)
             ELSE MinScanLast(m, row, col + 1, column_end, min_index, min_val)

MinInRowRangeLast(m, row, column_start, column_end) ==
    IF row >= m.height \/ column_start >= column_end \/ column_end > m.width
    THEN None
    ELSE MinScanLast(m, row, column_start + 1, column_end, column_start,
                     At(m, row, column_start))

MinInRowRange(m, row, column_start, column_end) ==
    IF row >= m.height \/ column_start >= column_end \/ column_end > m.width
    THEN None
    ELSE MinScan(m, row, column_start + 1, column_end, column_start,
                 At(m, row, column_start))

\* trim_width: assert!(new_width <= width), then for every row of
\* self.height the slice datum[row*width .. row*width + width] must exist.
TrimWidthFault(m, new_width) ==
    IF new_width > m.width THEN "assert"
    ELSE IF \E row \in 0..(m.height - 1) : row * m.width + m.width > Len(m.datum)
         THEN "index"
    ELSE "none"

\* Faulty variant: the rows are copied with the new width as their stride.
TrimWidthNoStride(m, new_width) ==
    [width |-> new_width, height |-> m.height,
     datum |-> [k \in 1..(m.height * new_width) |-> m.datum[k]]]

TrimWidth(m, new_width) ==
    [width |-> new_width, height |-> m.height,
     datum |-> [k \in 1..(m.height * new_width) |->
                  m.datum[((k - 1) \div new_width) * m.width
                          + ((k - 1) % new_width) + 1]]]

---------------------------------------------------------------------------
(* Image: width, height and the three channel matrices.                   *)

MkImage(width, height, red, green, blue) ==
    [width |-> width, height |-> height,
     red_channel |-> red, green_channel |-> green, blue_channel |-> blue]

PixelRGB(r, g, b) == [r |-> r, g |-> g, b |-> b]

\* get_pixel is Some exactly when row < height and col < width.
HasPixel(i, row, col) == row >= 0 /\ col >= 0 /\ row < i.height /\ col < i.width

\* Reading the three channels at (row, col) indexes each channel's datum.
PixelInRange(i, row, col) ==
    /\ InRange(i.red_channel, row, col)
    /\ InRange(i.green_channel, row, col)
    /\ InRange(i.blue_channel, row, col)

GetPixel(i, row, col) ==
    PixelRGB(At(i.red_channel, row, col), At(i.green_channel, row, col),
             At(i.blue_channel, row, col))

\* The (row, col) positions of a width x height grid.
Cells(width, height) == (0..(height - 1)) \X (0..(width - 1))

\* The image whose pixel at (row, col) is pix[<<row, col>>].
FromPixels(width, height, pix) ==
    MkImage(width, height,
        [width |-> width, height |-> height,
         datum |-> [k \in 1..(width * height) |->
                      pix[<<(k - 1) \div width, (k - 1) % width>>].r]],
        [width |-> width, height |-> height,
         datum |-> [k \in 1..(width * height) |->
                      pix[<<(k - 1) \div width, (k - 1) % width>>].g]],
        [width |-> width, height |-> height,
         datum |-> [k \in 1..(width * height) |->
                      pix[<<(k - 1) \div width, (k - 1) % width>>].b]])

SquaredDifference(p, q) ==
    (p.r - q.r) * (p.r - q.r) + (p.g - q.g) * (p.g - q.g)
        + (p.b - q.b) * (p.b - q.b)

\* The result of an operation: the image it leaves, the panic that ended
\* it ("none" when it returned) and the seams it removed.
Ok(i) == [img |-> i, fault |-> "none", removals |-> 0]
Panic(i, what) == [img |-> i, fault |-> what, removals |-> 0]

\* Sequencing of two calls, the second one made on first.img: a panic in
\* the first ends the method.
Then(first, second) ==
    IF first.fault # "none" THEN first
    ELSE [second EXCEPT !.removals = @ + first.removals]

\* self.width = new_width; then trim_width(new_width) on the red, the green
\* and the blue channel, in that order.
TrimChannels(i, new_width) ==
    IF TrimWidthFault(i.red_channel, new_width) # "none"
    THEN Panic(i, TrimWidthFault(i.red_channel, new_width))
    ELSE IF TrimWidthFault(i.green_channel, new_width) # "none"
    THEN Panic(i, TrimWidthFault(i.green_channel, new_width))
    ELSE IF TrimWidthFault(i.blue_channel, new_width) # "none"
    THEN Panic(i, TrimWidthFault(i.blue_channel, new_width))
    ELSE Ok(MkImage(new_width, i.height,
                    TrimWidth(i.red_channel, new_width),
                    TrimWidth(i.green_channel, new_width),
                    TrimWidth(i.blue_channel, new_width)))

---------------------------------------------------------------------------
(* The seam carver (src/src/img/seam.rs).                                  *)

\* rotate_left / rotate_right read every pixel of the image.
RotateFault(i) ==
    \E row \in 0..(i.height - 1), col \in 0..(i.width - 1) :
        ~PixelInRange(i, row, col)

\* new[(width - 1 - col, row)] = old[(row, col)] in a Matrix::new_filled(height,
\* width, 0): cell (new_row, new_col) holds old (new_col, width - 1 - new_row).
RotatedLeft(m, width, height) ==
    [width |-> height, height |-> width,
     datum |-> [k \in 1..(height * width) |->
                  At(m, (k - 1) % height, width - 1 - ((k - 1) \div height))]]

RotateLeft(i) ==
    IF i.width = 0 \/ i.height = 0 THEN Ok(i)
    ELSE IF RotateFault(i) THEN Panic(i, "index")
    ELSE Ok(MkImage(i.height, i.width,
                    RotatedLeft(i.red_channel, i.width, i.height),
                    RotatedLeft(i.green_channel, i.width, i.height),
                    RotatedLeft(i.blue_channel, i.width, i.height)))

\* Faulty variant: the right rotation turns the same way as the left one.
RotatedRightAsLeft(m, width, height) ==
    [width |-> height, height |-> width,
     datum |-> [k \in 1..(height * width) |->
                  At(m, (k - 1) % height, width - 1 - ((k - 1) \div height))]]

\* new[(col, height - 1 - row)] = old[(row, col)]: cell (new_row, new_col)
\* holds old (height - 1 - new_col, new_row).
RotatedRight(m, width, height) ==
    [width |-> height, height |-> width,
     datum |-> [k \in 1..(height * width) |->
                  At(m, height - 1 - ((k - 1) % height), (k - 1) \div height)]]

RotateRight(i) ==
    IF i.width = 0 \/ i.height = 0 THEN Ok(i)
    ELSE IF RotateFault(i) THEN Panic(i, "index")
    ELSE Ok(MkImage(i.height, i.width,
                    RotatedRight(i.red_channel, i.width, i.height),
                    RotatedRight(i.green_channel, i.width, i.height),
                    RotatedRight(i.blue_channel, i.width, i.height)))

\* The interior loop of energy: rows 1..height-2, columns 1..width-2.
Interior(i) == (1..(i.height - 2)) \X (1..(i.width - 2))

EnergyVal(i, row, col) ==
    SquaredDifference(GetPixel(i, row - 1, col), GetPixel(i, row + 1, col))
        + SquaredDifference(GetPixel(i, row, col + 1), GetPixel(i, row, col - 1))

\* Faulty variant: a maximum of 0 is not raised to 1.
MaxEnergyNoFloor(i) ==
    LET vals == {0} \cup {EnergyVal(i, rc[1], rc[2]) : rc \in Interior(i)}
    IN  CHOOSE v \in vals : \A u \in vals : u <= v

\* max_energy starts at 0 and follows the largest interior value; 0 becomes 1.
MaxEnergy(i) ==
    LET vals == {0} \cup {EnergyVal(i, rc[1], rc[2]) : rc \in Interior(i)}
        top == CHOOSE v \in vals : \A u \in vals : u <= v
    IN  IF top = 0 THEN 1 ELSE top

\* energy panics on an image with an empty side: `height - 1` / `width - 1`
\* underflow (a debug build panics there; a release build wraps and then
\* panics in get_pixel(..).unwrap() or in fill_border's index), and on a
\* pixel read outside a channel's datum.
EnergyFault(i) ==
    \/ i.width = 0 \/ i.height = 0
    \/ \E rc \in Interior(i) :
          \/ ~PixelInRange(i, rc[1] - 1, rc[2]) \/ ~PixelInRange(i, rc[1] + 1, rc[2])
          \/ ~PixelInRange(i, rc[1], rc[2] + 1) \/ ~PixelInRange(i, rc[1], rc[2] - 1)
    \/ FillBorderFault(NewFilled(i.width, i.height, 0))

Energy(i) ==
    FillBorder(
        [width |-> i.width, height |-> i.height,
         datum |-> [k \in 1..(i.width * i.height) |->
                      LET row == (k - 1) \div i.width
                          col == (k - 1) % i.width
                      IN  IF <<row, col>> \in Interior(i)
                          THEN EnergyVal(i, row, col) ELSE 0]],
        MaxEnergy(i))

\* Faulty variant: the cell above and to the left is never looked at.
CostCellNoLeft(energy, cost, width, row, col) ==
    LET up == At(cost, row - 1, col)
        min_prev == IF col < width - 1
                    THEN Min2(up, At(cost, row - 1, col + 1)) ELSE up
    IN  At(energy, row, col) + min_prev

\* Faulty variant: the cell above and to the right is never looked at.
CostCellNoRight(energy, cost, width, row, col) ==
    LET up == At(cost, row - 1, col)
        left == IF col > 0 THEN Min2(up, At(cost, row - 1, col - 1)) ELSE up
    IN  At(energy, row, col) + left

\* One cell of the cost recurrence, read from the rows already filled.
CostCell(energy, cost, width, row, col) ==
    LET up == At(cost, row - 1, col)
        left == IF col > 0 THEN Min2(up, At(cost, row - 1, col - 1)) ELSE up
        min_prev == IF col < width - 1
                    THEN Min2(left, At(cost, row - 1, col + 1)) ELSE left
    IN  At(energy, row, col) + min_prev

RECURSIVE CostRows(_, _, _, _, _)
CostRows(energy, cost, width, height, row) ==
    IF row >= height THEN cost
    ELSE CostRows(energy,
                  [cost EXCEPT !.datum =
                      [k \in 1..Len(cost.datum) |->
                          IF (k - 1) \div width = row
                          THEN CostCell(energy, cost, width, row, (k - 1) % width)
                          ELSE cost.datum[k]]],
                  width, height, row + 1)

\* vertical_cost: row 0 copies the energy, every later row adds the least
\* of the (up to three) cells above.
VerticalCost(i) ==
    The({ CostRows(energy,
                   [width |-> i.width, height |-> i.height,
                    datum |-> [k \in 1..(i.width * i.height) |->
                                 IF k <= i.width THEN energy.datum[k] ELSE 0]],
                   i.width, i.height, 1) :
            energy \in {Energy(i)} })

\* Faulty variant: the search window is not clipped to the image width.
RECURSIVE BacktraceUnclipped(_, _, _, _, _)
BacktraceUnclipped(cost, width, row, current_col, seam) ==
    IF row = 0 THEN [fault |-> "none", seam |-> seam]
    ELSE LET start == Max2(current_col - 1, 0)
             end == current_col + 2
             found == MinInRowRange(cost, row - 1, start, end)
         IN  IF ~found.some THEN [fault |-> "expect", seam |-> seam]
             ELSE BacktraceUnclipped(cost, width, row - 1, found.index,
                                     [seam EXCEPT ![row] = found.index])

\* Faulty variant: the next row is searched two columns to either side.
RECURSIVE BacktraceWide(_, _, _, _, _)
BacktraceWide(cost, width, row, current_col, seam) ==
    IF row = 0 THEN [fault |-> "none", seam |-> seam]
    ELSE LET start == Max2(current_col - 2, 0)
             end == Min2(current_col + 3, width)
             found == MinInRowRange(cost, row - 1, start, end)
         IN  IF ~found.some THEN [fault |-> "expect", seam |-> seam]
             ELSE BacktraceWide(cost, width, row - 1, found.index,
                                [seam EXCEPT ![row] = found.index])

\* The upward walk of minimal_vertical_seam from the row just decided:
\* the next row is searched in [current_col - 1, current_col + 2) clipped
\* to [0, width); a None from min_in_row_range fails the expect.
RECURSIVE Backtrace(_, _, _, _, _)
Backtrace(cost, width, row, current_col, seam) ==
    IF row = 0 THEN [fault |-> "none", seam |-> seam]
    ELSE LET start == Max2(current_col - 1, 0)
             end == Min2(current_col + 2, width)
             found == MinInRowRange(cost, row - 1, start, end)
         IN  IF ~found.some THEN [fault |-> "expect", seam |-> seam]
             ELSE Backtrace(cost, width, row - 1, found.index,
                            [seam EXCEPT ![row] = found.index])

MinimalVerticalSeam(i) ==
    IF EnergyFault(i) THEN [fault |-> "index", seam |-> <<>>]
    ELSE The({ The({ IF ~bottom.some THEN [fault |-> "expect", seam |-> <<>>]
                     ELSE Backtrace(cost, i.width, i.height - 1, bottom.index,
                                    [[r \in 1..i.height |-> 0]
                                        EXCEPT ![i.height] = bottom.index]) :
                     bottom \in {MinInRowRange(cost, i.height - 1, 0, i.width)} }) :
               cost \in {VerticalCost(i)} })

\* for col in seam_col..width-1 { m[(row, col)] = m[(row, col + 1)] }
RECURSIVE ShiftRow(_, _, _, _)
ShiftRow(m, row, col, end) ==
    IF col >= end THEN m
    ELSE ShiftRow(Put(m, row, col, At(m, row, col + 1)), row, col + 1, end)

RECURSIVE ShiftRows(_, _, _, _, _)
ShiftRows(m, seam, width, height, row) ==
    IF row >= height THEN m
    ELSE ShiftRows(ShiftRow(m, row, seam[row + 1], width - 1),
                   seam, width, height, row + 1)

\* The assertions and indexings of remove_vertical_seam up to the trims.
RemoveFault(i, seam) ==
    IF Len(seam) # i.height THEN "assert"
    ELSE IF \E row \in 0..(i.height - 1) : seam[row + 1] >= i.width THEN "assert"
    ELSE IF \E row \in 0..(i.height - 1) :
                seam[row + 1] < i.width - 1 /\ ~PixelInRange(i, row, i.width - 1)
         THEN "index"
    ELSE "none"

\* The three channels after the shift loops, before the trims.
SeamShifted(i, seam) ==
    MkImage(i.width - 1, i.height,
        ShiftRows(i.red_channel, seam, i.width, i.height, 0),
        ShiftRows(i.green_channel, seam, i.width, i.height, 0),
        ShiftRows(i.blue_channel, seam, i.width, i.height, 0))

RemoveVerticalSeam(i) ==
    The({ IF found.fault # "none" THEN Panic(i, found.fault)
          ELSE IF RemoveFault(i, found.seam) # "none"
          THEN Panic(i, RemoveFault(i, found.seam))
          ELSE The({ [trimmed EXCEPT
                         !.removals = IF trimmed.fault = "none" THEN 1 ELSE 0] :
                     trimmed \in { TrimChannels(shifted, i.width - 1) :
                                     shifted \in {SeamShifted(i, found.seam)} } }) :
          found \in {MinimalVerticalSeam(i)} })

\* for _ in 0..n { self.remove_vertical_seam(); }
RECURSIVE RemoveLoop(_, _)
RemoveLoop(i, n) ==
    IF n <= 0 THEN Ok(i)
    ELSE The({ Then(removed, RemoveLoop(removed.img, n - 1)) :
                 removed \in {RemoveVerticalSeam(i)} })

\* Faulty variant: an inclusive range, one removal too many.
SeamCarveWidthInclusive(i, new_width) ==
    IF i.width = new_width THEN Ok(i)
    ELSE RemoveLoop(i, Max2(i.width - new_width, 0) + 1)

\* Faulty variant: the distance to the target instead of the saturating difference.
SeamCarveWidthAbsDiff(i, new_width) ==
    IF i.width = new_width THEN Ok(i)
    ELSE RemoveLoop(i, Max2(i.width - new_width, new_width - i.width))

\* Faulty variant: a plain subtraction, which overflows when the target
\* exceeds the width.
SeamCarveWidthPlainSub(i, new_width) ==
    IF i.width = new_width THEN Ok(i)
    ELSE IF new_width > i.width THEN Panic(i, "overflow")
    ELSE RemoveLoop(i, i.width - new_width)

\* Faulty variant: a call removes one seam at most.
SeamCarveWidthOneSeam(i, new_width) ==
    IF i.width = new_width THEN Ok(i)
    ELSE RemoveLoop(i, Min2(Max2(i.width - new_width, 0), 1))

\* The range 0..width.saturating_sub(new_width) is fixed before the loop.
SeamCarveWidth(i, new_width) ==
    IF i.width = new_width THEN Ok(i)
    ELSE RemoveLoop(i, Max2(i.width - new_width, 0))

\* Faulty variant: the image is not rotated back after the carve.
SeamCarveHeightLeftRotated(i, new_height) ==
    The({ Then(rotated, SeamCarveWidth(rotated.img, new_height)) :
            rotated \in {RotateLeft(i)} })

SeamCarveHeight(i, new_height) ==
    The({ Then(carved, RotateRight(carved.img)) :
            carved \in { Then(rotated, SeamCarveWidth(rotated.img, new_height)) :
                           rotated \in {RotateLeft(i)} } })

\* Faulty variant: the height is carved before the width.
SeamCarveHeightFirst(i, new_width, new_height) ==
    The({ Then(carved, SeamCarveWidth(carved.img, new_width)) :
            carved \in {SeamCarveHeight(i, new_height)} })

\* Image::seam_carve (src/src/img/image.rs)
SeamCarve(i, new_width, new_height) ==
    The({ Then(carved, SeamCarveHeight(carved.img, new_height)) :
            carved \in {SeamCarveWidth(i, new_width)} })

---------------------------------------------------------------------------
(* Cropping (src/src/img/crop.rs).                                         *)

CropMethod ==
    {"Left", "Right", "LeftRight", "Top", "Bottom", "TopBottom",
     "LeftTop", "LeftBottom", "RightTop", "RightBottom", "Rectangular"}

\* The copy loop of crop_left on one channel: cell (row, col) takes the
\* value of (row, col + cols_to_trim); the source cell lies to the right of
\* every cell written before it, so it still holds its old value.
ShiftedLeft(m, height, new_width, cols_to_trim) ==
    [m EXCEPT !.datum =
        [k \in 1..Len(m.datum) |->
            LET row == (k - 1) \div m.width
                col == (k - 1) % m.width
            IN  IF row < height /\ col < new_width
                THEN At(m, row, col + cols_to_trim) ELSE m.datum[k]]]

CropLeft(i, new_width) ==
    IF new_width >= i.width \/ new_width = 0 THEN Ok(i)
    ELSE LET cols_to_trim == i.width - new_width
         IN  IF \E row \in 0..(i.height - 1), col \in 0..(new_width - 1) :
                    ~PixelInRange(i, row, col + cols_to_trim)
             THEN Panic(i, "index")
             ELSE TrimChannels(
                      MkImage(new_width, i.height,
                          ShiftedLeft(i.red_channel, i.height, new_width, cols_to_trim),
                          ShiftedLeft(i.green_channel, i.height, new_width, cols_to_trim),
                          ShiftedLeft(i.blue_channel, i.height, new_width, cols_to_trim)),
                      new_width)

\* Faulty variant: the blue channel is not trimmed.
CropRightTwoChannels(i, new_width) ==
    IF new_width >= i.width \/ new_width = 0 THEN Ok(i)
    ELSE Ok(MkImage(new_width, i.height,
                    TrimWidth(i.red_channel, new_width),
                    TrimWidth(i.green_channel, new_width),
                    i.blue_channel))

CropRight(i, new_width) ==
    IF new_width >= i.width \/ new_width = 0 THEN Ok(i)
    ELSE TrimChannels([i EXCEPT !.width = new_width], new_width)

\* The copy loop of crop_top on one channel: cell (row, col) takes the value
\* of (row + rows_to_trim, col), a row no earlier step has written.
ShiftedUp(m, new_height, width, rows_to_trim) ==
    [m EXCEPT !.datum =
        [k \in 1..Len(m.datum) |->
            LET row == (k - 1) \div m.width
                col == (k - 1) % m.width
            IN  IF row < new_height /\ col < width
                THEN At(m, row + rows_to_trim, col) ELSE m.datum[k]]]

\* channel.datum.truncate(len): the Vec is cut, the Matrix keeps its width
\* and height fields.
Truncate(m, len) ==
    [m EXCEPT !.datum = SubSeq(m.datum, 1, Min2(len, Len(m.datum)))]

CropTop(i, new_height) ==
    IF new_height >= i.height \/ new_height = 0 THEN Ok(i)
    ELSE LET rows_to_trim == i.height - new_height
         IN  IF \E row \in 0..(new_height - 1), col \in 0..(i.width - 1) :
                    ~PixelInRange(i, row + rows_to_trim, col)
             THEN Panic(i, "index")
             ELSE Ok(MkImage(i.width, new_height,
                      Truncate(ShiftedUp(i.red_channel, new_height, i.width, rows_to_trim),
                               new_height * i.width),
                      Truncate(ShiftedUp(i.green_channel, new_height, i.width, rows_to_trim),
                               new_height * i.width),
                      Truncate(ShiftedUp(i.blue_channel, new_height, i.width, rows_to_trim),
                               new_height * i.width)))

CropBottom(i, new_height) ==
    IF new_height >= i.height \/ new_height = 0 THEN Ok(i)
    ELSE Ok(MkImage(i.width, new_height,
                    Truncate(i.red_channel, new_height * i.width),
                    Truncate(i.green_channel, new_height * i.width),
                    Truncate(i.blue_channel, new_height * i.width)))

\* One channel of crop_rect: a new matrix filled from the old one through
\* its index (y_offset + row, x_offset + col).
Sliced(m, new_width, new_height, x_offset, y_offset) ==
    [width |-> new_width, height |-> new_height,
     datum |-> [k \in 1..(new_width * new_height) |->
                  At(m, y_offset + ((k - 1) \div new_width),
                        x_offset + ((k - 1) % new_width))]]

CropRect(i, new_width, new_height, x_offset, y_offset) ==
    IF \E row \in 0..(new_height - 1), col \in 0..(new_width - 1) :
           ~PixelInRange(i, y_offset + row, x_offset + col)
    THEN Panic(i, "index")
    ELSE Ok(MkImage(new_width, new_height,
                Sliced(i.red_channel, new_width, new_height, x_offset, y_offset),
                Sliced(i.green_channel, new_width, new_height, x_offset, y_offset),
                Sliced(i.blue_channel, new_width, new_height, x_offset, y_offset)))

CropWidth(i, new_width, method) ==
    CASE method = "Left" -> CropLeft(i, new_width)
      [] method = "Right" -> CropRight(i, new_width)
      [] method = "LeftRight" ->
            CropRect(i, new_width, i.height, Max2(i.width - new_width, 0) \div 2, 0)
      [] OTHER -> Panic(i, "panic")

CropHeight(i, new_height, method) ==
    CASE method = "Top" -> CropTop(i, new_height)
      [] method = "Bottom" -> CropBottom(i, new_height)
      [] method = "TopBottom" ->
            CropRect(i, i.width, new_height, 0, Max2(i.height - new_height, 0) \div 2)
      [] OTHER -> Panic(i, "panic")

\* Image::crop (src/src/img/image.rs); rect_center_x / rect_center_y are
\* Option<usize>, -1 standing for None.
Crop(i, new_width, new_height, method, rect_center_x, rect_center_y) ==
    IF new_width = 0 \/ new_height = 0 \/ new_width > i.width \/ new_height > i.height
    THEN Ok(i)
    ELSE LET w_diff == i.width - new_width
             h_diff == i.height - new_height
         IN  CASE method = "Left" -> CropLeft(i, new_width)
               [] method = "Right" -> CropRight(i, new_width)
               [] method = "LeftRight" ->
                     The({ Then(right, CropLeft(right.img, new_width)) :
                            right \in {CropRight(i, i.width - (w_diff - (w_diff \div 2)))} })
               [] method = "Top" -> CropTop(i, new_height)
               [] method = "Bottom" -> CropBottom(i, new_height)
               [] method = "TopBottom" ->
                     The({ Then(bottom, CropTop(bottom.img, new_height)) :
                            bottom \in {CropBottom(i, i.height - (h_diff - (h_diff \div 2)))} })
               [] method = "LeftTop" ->
                     The({ Then(left, CropTop(left.img, new_height)) :
                            left \in {CropLeft(i, new_width)} })
               [] method = "LeftBottom" ->
                     The({ Then(left, CropBottom(left.img, new_height)) :
                            left \in {CropLeft(i, new_width)} })
               [] method = "RightTop" ->
                     The({ Then(right, CropTop(right.img, new_height)) :
                            right \in {CropRight(i, new_width)} })
               [] method = "RightBottom" ->
                     The({ Then(right, CropBottom(right.img, new_height)) :
                            right \in {CropRight(i, new_width)} })
               [] method = "Rectangular" ->
                     CropRect(i, new_width, new_height,
                         IF rect_center_x = -1 THEN w_diff \div 2 ELSE rect_center_x,
                         IF rect_center_y = -1 THEN h_diff \div 2 ELSE rect_center_y)

---------------------------------------------------------------------------
(* Scaling (src/src/img/scale.rs) and Image::scale / Image::resize.        *)

ScaleMethod == {"Linear", "Bilinear"}

\* get_pixel(row, col).unwrap(): None panics, Some reads the three channels.
UnwrapFault(i, row, col) ==
    IF ~HasPixel(i, row, col) THEN "expect"
    ELSE IF ~PixelInRange(i, row, col) THEN "index"
    ELSE "none"

\* Faulty variant: the source row and column are rounded up instead of
\* down (and kept inside the image).
LinearScaleRoundedUp(i, new_width, new_height) ==
    LET orig_row(new_row) ==
            Min2((new_row * i.height + new_height - 1) \div new_height, i.height - 1)
        orig_col(new_col) ==
            Min2((new_col * i.width + new_width - 1) \div new_width, i.width - 1)
    IN  Ok(FromPixels(new_width, new_height,
               [c \in Cells(new_width, new_height) |->
                   GetPixel(i, orig_row(c[1]), orig_col(c[2]))]))

LinearScale(i, new_width, new_height) ==
    LET orig_row(new_row) == (new_row * i.height) \div new_height
        orig_col(new_col) == (new_col * i.width) \div new_width
        faults == { UnwrapFault(i, orig_row(new_row), orig_col(new_col)) :
                      new_row \in 0..(new_height - 1), new_col \in 0..(new_width - 1) }
                  \ {"none"}
    IN  IF faults # {} THEN Panic(i, CHOOSE f \in faults : TRUE)
        ELSE Ok(FromPixels(new_width, new_height,
                    [c \in Cells(new_width, new_height) |->
                        GetPixel(i, orig_row(c[1]), orig_col(c[2]))]))

\* interpolate(a, b, t) = (a * (1 - t) + b * t).round() with t = num / den:
\* the nearest integer, a half rounded up.  t is a quotient of two small
\* integers, so the f64 value rounds like the exact one.
Interpolate(a, b, num, den) ==
    (2 * (a * (den - num) + b * num) + den) \div (2 * den)

\* The sampled source indexes of bilinear_scale along one axis of source
\* length `side` and target length `new_side`: src.floor(), and
\* x0.min(side - 1).saturating_add(1).min(side - 1).
Sample0(side, new_side, new_x) == (new_x * side) \div new_side

\* Faulty variant: the second sample is not clamped to the last index.
Sample1Unclamped(side, new_side, new_x) ==
    Min2(Sample0(side, new_side, new_x), side - 1) + 1

Sample1(side, new_side, new_x) ==
    Min2(Min2(Sample0(side, new_side, new_x), side - 1) + 1, side - 1)

BilinearScale(i, new_width, new_height) ==
    LET x0(new_x) == Sample0(i.width, new_width, new_x)
        y0(new_y) == Sample0(i.height, new_height, new_y)
        x1(new_x) == Sample1(i.width, new_width, new_x)
        y1(new_y) == Sample1(i.height, new_height, new_y)
        dx(new_x) == (new_x * i.width) % new_width
        dy(new_y) == (new_y * i.height) % new_height
        faults == UNION { { UnwrapFault(i, y0(new_y), x0(new_x)),
                            UnwrapFault(i, y0(new_y), x1(new_x)),
                            UnwrapFault(i, y1(new_y), x0(new_x)),
                            UnwrapFault(i, y1(new_y), x1(new_x)) } :
                          new_y \in 0..(new_height - 1), new_x \in 0..(new_width - 1) }
                  \ {"none"}
        mix(m, new_y, new_x) ==
            Interpolate(
                Interpolate(At(m, y0(new_y), x0(new_x)), At(m, y0(new_y), x1(new_x)),
                            dx(new_x), new_width),
                Interpolate(At(m, y1(new_y), x0(new_x)), At(m, y1(new_y), x1(new_x)),
                            dx(new_x), new_width),
                dy(new_y), new_height)
    IN  IF (i.width = 0 \/ i.height = 0) /\ new_width >= 1 /\ new_height >= 1
        THEN Panic(i, "overflow")
        ELSE IF faults # {} THEN Panic(i, CHOOSE f \in faults : TRUE)
        ELSE Ok(FromPixels(new_width, new_height,
                    [c \in Cells(new_width, new_height) |->
                        PixelRGB(mix(i.red_channel, c[1], c[2]),
                                 mix(i.green_channel, c[1], c[2]),
                                 mix(i.blue_channel, c[1], c[2]))]))

\* Image::scale (src/src/img/image.rs)
Scale(i, new_width, new_height, method) ==
    IF i.width = 0 \/ i.height = 0 \/ new_width = 0 \/ new_height = 0 THEN Ok(i)
    ELSE IF method = "Linear" THEN LinearScale(i, new_width, new_height)
    ELSE BilinearScale(i, new_width, new_height)

\* The width step of resize; crop_x is a CropMethod or "None".
ResizeWidth(i, target_width, method, crop_x) ==
    IF target_width > i.width THEN Scale(i, target_width, i.height, method)
    ELSE IF target_width < i.width
    THEN IF crop_x = "None" THEN Panic(i, "missing_crop")
         ELSE CropWidth(i, target_width, crop_x)
    ELSE Ok(i)

\* The height step of resize, on the image the width step left.
ResizeHeight(i, target_height, method, crop_y) ==
    IF target_height > i.height THEN Scale(i, i.width, target_height, method)
    ELSE IF target_height < i.height
    THEN IF crop_y = "None" THEN Panic(i, "missing_crop")
         ELSE CropHeight(i, target_height, crop_y)
    ELSE Ok(i)

Resize(i, target_width, target_height, method, crop_x, crop_y) ==
    The({ Then(widened, ResizeHeight(widened.img, target_height, method, crop_y)) :
            widened \in {ResizeWidth(i, target_width, method, crop_x)} })

---------------------------------------------------------------------------
(* Mirrors and transposition (src/src/img/matrix.rs, image.rs).            *)

\* Matrix::mirror_x swaps rows row and height - 1 - row through
\* datum.swap, which panics on an index not below datum.len().
MirrorXFault(m) ==
    \E col \in 0..(m.width - 1), row \in 0..((m.height \div 2) - 1) :
        \/ row * m.width + col >= Len(m.datum)
        \/ (m.height - 1 - row) * m.width + col >= Len(m.datum)

MatrixMirrorX(m) ==
    [m EXCEPT !.datum =
        [k \in 1..Len(m.datum) |->
            LET row == (k - 1) \div m.width
                col == (k - 1) % m.width
            IN  IF row < m.height /\ 2 * row + 1 # m.height
                THEN At(m, m.height - 1 - row, col) ELSE m.datum[k]]]

\* Matrix::mirror_y swaps columns col and width - 1 - col of every row.
MirrorYFault(m) ==
    \E row \in 0..(m.height - 1), col \in 0..((m.width \div 2) - 1) :
        \/ row * m.width + col >= Len(m.datum)
        \/ row * m.width + (m.width - 1 - col) >= Len(m.datum)

MatrixMirrorY(m) ==
    [m EXCEPT !.datum =
        [k \in 1..Len(m.datum) |->
            LET row == (k - 1) \div m.width
                col == (k - 1) % m.width
            IN  IF row < m.height /\ 2 * col + 1 # m.width
                THEN At(m, row, m.width - 1 - col) ELSE m.datum[k]]]

\* Matrix::transpose reads datum[0] for the fill value, then every cell.
TransposeFault(m) ==
    \/ Len(m.datum) = 0
    \/ \E row \in 0..(m.height - 1), col \in 0..(m.width - 1) : ~InRange(m, row, col)

MatrixTranspose(m) ==
    [width |-> m.height, height |-> m.width,
     datum |-> [k \in 1..(m.width * m.height) |->
                  At(m, (k - 1) % m.height, (k - 1) \div m.height)]]

MirrorX(i) ==
    IF MirrorXFault(i.red_channel) \/ MirrorXFault(i.green_channel)
          \/ MirrorXFault(i.blue_channel)
    THEN Panic(i, "index")
    ELSE Ok(MkImage(i.width, i.height, MatrixMirrorX(i.red_channel),
                    MatrixMirrorX(i.green_channel), MatrixMirrorX(i.blue_channel)))

MirrorY(i) ==
    IF MirrorYFault(i.red_channel) \/ MirrorYFault(i.green_channel)
          \/ MirrorYFault(i.blue_channel)
    THEN Panic(i, "index")
    ELSE Ok(MkImage(i.width, i.height, MatrixMirrorY(i.red_channel),
                    MatrixMirrorY(i.green_channel), MatrixMirrorY(i.blue_channel)))

Transpose(i) ==
    IF TransposeFault(i.red_channel) \/ TransposeFault(i.green_channel)
          \/ TransposeFault(i.blue_channel)
    THEN Panic(i, "index")
    ELSE Ok(MkImage(i.height, i.width, MatrixTranspose(i.red_channel),
                    MatrixTranspose(i.green_channel), MatrixTranspose(i.blue_channel)))

---------------------------------------------------------------------------
(* Images the program starts from.  Image::from_bytes builds the three    *)
(* channels with Matrix::from_vec(width, height, ..) from width * height  *)
(* samples each (src/src/img/io.rs), so a decoded image is well formed.    *)

Background == PixelRGB(0, 0, 0)

\* The colour of a marked pixel: two accents alternating over the grid.
Shade(row, col) ==
    IF (row + col) % 2 = 0 THEN PixelRGB(1, 2, 3) ELSE PixelRGB(3, 1, 0)

\* The sets of at most n of the given cells.
RECURSIVE MarkSets(_, _)
MarkSets(cells, n) ==
    IF n = 0 THEN {{}}
    ELSE {{}} \cup { s \cup {c} : s \in MarkSets(cells, n - 1), c \in cells }

\* Background images of every size up to MaxW x MaxH (empty sides
\* included) with at most MaxMarks marked pixels.
Decoded ==
    UNION { { FromPixels(w, h,
                [c \in Cells(w, h) |->
                    IF c \in marks THEN Shade(c[1], c[2]) ELSE Background])
              : marks \in MarkSets(Cells(w, h), MaxMarks) }
            : w \in 0..MaxW, h \in 0..MaxH }

\* The call that produced the current image ("none": no call is recorded):
\* its name and its arguments, -1 or "None" for those it does not take.
CallWith(op, w, h, method, crop_x, crop_y, x, y) ==
    [op |-> op, w |-> w, h |-> h, method |-> method,
     crop_x |-> crop_x, crop_y |-> crop_y, x |-> x, y |-> y]

Call(op, w, h) == CallWith(op, w, h, "None", "None", "None", -1, -1)

\* The largest side a scale or resize target asks for.
Cap == Max2(MaxW, MaxH)

\* Targets around the side d for the calls that take two sizes: empty,
\* one, one less, equal, one more (one more than Cap at most, so that the
\* images stay bounded).
Near(d) == {t \in {0, 1, d - 1, d, d + 1} : 0 <= t /\ t <= Cap + 1}

\* Scale and resize targets.
Targets(d) == {t \in {0, 1, d - 1, d, d + 1, Cap} : 0 <= t /\ t <= Cap}

Init ==
    /\ img \in Decoded
    /\ pre = img
    /\ last = Call("none", -1, -1)
    /\ fault = "none"
    /\ removals = 0

\* A call runs on the image the caller holds, unless an earlier call
\* panicked; `pre`, `last` and `removals` record it until the caller goes on.
Do(call, res) ==
    /\ fault = "none"
    /\ last.op = "none"
    /\ \E done \in {res} :
           /\ pre' = img
           /\ img' = done.img
           /\ fault' = done.fault
           /\ removals' = done.removals
           /\ last' = call

RemoveVerticalSeamOp ==
    Do(Call("remove_vertical_seam", -1, -1), RemoveVerticalSeam(img))

SeamCarveWidthOp ==
    /\ last.op = "none"
    /\ \E new_width \in 0..(img.width + 1) :
        Do(Call("seam_carve_width", new_width, -1), SeamCarveWidth(img, new_width))

SeamCarveHeightOp ==
    /\ last.op = "none"
    /\ \E new_height \in 0..(img.height + 1) :
        Do(Call("seam_carve_height", -1, new_height),
           SeamCarveHeight(img, new_height))

SeamCarveOp ==
    /\ last.op = "none"
    /\ \E new_width \in Near(img.width), new_height \in Near(img.height) :
        Do(Call("seam_carve", new_width, new_height),
           SeamCarve(img, new_width, new_height))

RotateLeftOp == Do(Call("rotate_left", -1, -1), RotateLeft(img))

RotateRightOp == Do(Call("rotate_right", -1, -1), RotateRight(img))

\* The caller goes on with the image the finished call left.
Resume ==
    /\ fault = "none"
    /\ last.op # "none"
    /\ pre' = img
    /\ last' = Call("none", -1, -1)
    /\ removals' = 0
    /\ UNCHANGED <<img, fault>>

\* The seam carver and the rotations it is built on.
Next ==
    \/ Resume
    \/ RemoveVerticalSeamOp
    \/ SeamCarveWidthOp
    \/ SeamCarveHeightOp
    \/ SeamCarveOp
    \/ RotateLeftOp
    \/ RotateRightOp

Spec == Init /\ [][Next]_vars

---------------------------------------------------------------------------
(* Properties of the seam carver, checked under Spec.                      *)

\* A channel matrix whose datum holds exactly width * height samples, of
\* the image's own width and height.
WellFormedChannel(i, m) ==
    /\ m.width = i.width
    /\ m.height = i.height
    /\ Len(m.datum) = m.width * m.height

WellFormed(i) ==
    /\ WellFormedChannel(i, i.red_channel)
    /\ WellFormedChannel(i, i.green_channel)
    /\ WellFormedChannel(i, i.blue_channel)

Removed == last.op = "remove_vertical_seam" /\ pre.width >= 1 /\ pre.height >= 1

Paths(width, height) ==
    { p \in [1..height -> 0..(width - 1)] :
        \A r \in 1..(height - 1) : p[r] - p[r + 1] \in {-1, 0, 1} }

RECURSIVE PathEnergy(_, _, _)
PathEnergy(energy, p, rows) ==
    IF rows = 0 THEN 0
    ELSE At(energy, rows - 1, p[rows]) + PathEnergy(energy, p, rows - 1)

\* C2: the seam of minimal_vertical_seam is a global minimum: its summed
\* energy is the least over all connected top-to-bottom paths, and equals
\* the least value of the bottom row of vertical_cost.
C2_SeamIsGlobalMinimum ==
    Removed =>
        LET energy == Energy(pre)
            cost == VerticalCost(pre)
            seam == MinimalVerticalSeam(pre).seam
            total == PathEnergy(energy, seam, pre.height)
        IN  /\ \A p \in Paths(pre.width, pre.height) :
                   total <= PathEnergy(energy, p, pre.height)
            /\ \E p \in Paths(pre.width, pre.height) :
                   total = PathEnergy(energy, p, pre.height)
            /\ \A col \in 0..(pre.width - 1) : total <= At(cost, pre.height - 1, col)
            /\ \E col \in 0..(pre.width - 1) : total = At(cost, pre.height - 1, col)

\* A removal whose energy map is not flat: some path costs more than the seam.
C2_Witness ==
    /\ Removed /\ fault = "none"
    /\ pre.width >= 4 /\ pre.height >= 4
    /\ LET energy == Energy(pre)
           seam == MinimalVerticalSeam(pre).seam
       IN  /\ \E p \in Paths(pre.width, pre.height) :
                  PathEnergy(energy, p, pre.height)
                      > PathEnergy(energy, seam, pre.height)
           /\ \E r \in 1..(pre.height - 1) : seam[r] # seam[r + 1]

\* C3: on an image with width >= 1 and height >= 1 minimal_vertical_seam
\* returns height entries, each a column of the image before the removal,
\* so neither assertion of remove_vertical_seam (nor an expect) fires.
C3_SeamEntriesInBounds ==
    Removed =>
        LET found == MinimalVerticalSeam(pre)
        IN  /\ found.fault = "none"
            /\ Len(found.seam) = pre.height
            /\ \A r \in 1..pre.height : found.seam[r] \in 0..(pre.width - 1)
            /\ RemoveFault(pre, found.seam) = "none"
            /\ fault = "none"

\* A removal whose seam leaves column 0 and reaches the last inner column.
C3_Witness ==
    /\ Removed /\ fault = "none"
    /\ pre.width >= 4 /\ pre.height >= 3
    /\ \E r \in 1..pre.height : MinimalVerticalSeam(pre).seam[r] = pre.width - 2

\* k successive single seam removals, each computed from the image the
\* one before it left.
RECURSIVE Carved(_, _)
Carved(i, k) == IF k = 0 THEN i ELSE Carved(RemoveVerticalSeam(i).img, k - 1)

C6_CarveWidthIdempotent ==
    (last.op = "seam_carve_width" /\ fault = "none") =>
        LET again == SeamCarveWidth(img, last.w)
        IN  /\ again.fault = "none"
            /\ again.removals = 0
            /\ again.img = img

\* A first call that did remove seams.
C6_Witness ==
    /\ last.op = "seam_carve_width" /\ fault = "none"
    /\ removals >= 1 /\ img.width >= 1 /\ img.height >= 1

\* C7: seam_carve_height with 0 <= target_height <= height on an image with
\* width >= 1 and height >= 1 ends with height = target_height and the
\* original width.
C7_CarveHeightReachesTarget ==
    (last.op = "seam_carve_height" /\ pre.width >= 1 /\ pre.height >= 1
        /\ 0 <= last.h /\ last.h <= pre.height) =>
        /\ fault = "none"
        /\ img.height = last.h
        /\ img.width = pre.width

\* The same with 1 <= target_height: the case the rotation back handles.
C7_PositiveTarget ==
    (last.op = "seam_carve_height" /\ pre.width >= 1 /\ pre.height >= 1
        /\ 1 <= last.h /\ last.h <= pre.height) =>
        /\ fault = "none"
        /\ img.height = last.h
        /\ img.width = pre.width

SamePixels(i, j) ==
    /\ i.width = j.width
    /\ i.height = j.height
    /\ \A row \in 0..(i.height - 1), col \in 0..(i.width - 1) :
           GetPixel(i, row, col) = GetPixel(j, row, col)

\* C11: rotate_left followed by rotate_right restores the width, the height
\* and every pixel of any image, empty sides included; on an image with
\* width, height >= 1 rotate_left moves pixel (r, c) to (width - 1 - c, r)
\* and rotate_right moves it to (c, height - 1 - r), swapping the sides.
C11_RotateLeftThenRightRestores ==
    /\ (last.op = "rotate_left") =>
          /\ fault = "none"
          /\ RotateRight(img).fault = "none"
          /\ SamePixels(RotateRight(img).img, pre)
          /\ (pre.width >= 1 /\ pre.height >= 1) =>
                /\ img.width = pre.height /\ img.height = pre.width
                /\ \A r \in 0..(pre.height - 1), c \in 0..(pre.width - 1) :
                       GetPixel(img, pre.width - 1 - c, r) = GetPixel(pre, r, c)
    /\ (last.op = "rotate_right" /\ pre.width >= 1 /\ pre.height >= 1) =>
          /\ fault = "none"
          /\ img.width = pre.height /\ img.height = pre.width
          /\ \A r \in 0..(pre.height - 1), c \in 0..(pre.width - 1) :
                 GetPixel(img, c, pre.height - 1 - r) = GetPixel(pre, r, c)

\* A left rotation of a marked image that is not square.
C11_Witness ==
    /\ last.op = "rotate_left" /\ fault = "none"
    /\ pre.width >= 3 /\ pre.height >= 2 /\ pre.width # pre.height
    /\ \E row \in 0..(pre.height - 1), col \in 0..(pre.width - 1) :
           GetPixel(pre, row, col) # Background
    /\ img # pre

\* The squared RGB distance of the pixels at two positions of an image.
SqDist(i, r1, c1, r2, c2) ==
    LET p == GetPixel(i, r1, c1)
        q == GetPixel(i, r2, c2)
    IN  (p.r - q.r) ^ 2 + (p.g - q.g) ^ 2 + (p.b - q.b) ^ 2

OnBorder(i, r, c) == r = 0 \/ c = 0 \/ r = i.height - 1 \/ c = i.width - 1

\* C12: on an image with width >= 3 and height >= 3 energy returns a matrix
\* of the image's shape; an interior cell (r, c) holds sqdist((r-1,c),(r+1,c))
\* + sqdist((r,c+1),(r,c-1)); every border cell holds the largest interior
\* value, or 1 when all interior values are 0, so it is >= 1 and >= every
\* interior cell; a uniform image has interior 0 and border 1.
C12_EnergyInteriorAndBorder ==
    (Removed /\ pre.width >= 3 /\ pre.height >= 3) =>
        LET energy == Energy(pre)
            inner == { rc \in Cells(pre.width, pre.height) : ~OnBorder(pre, rc[1], rc[2]) }
            edge == { rc \in Cells(pre.width, pre.height) : OnBorder(pre, rc[1], rc[2]) }
            uniform == \A rc \in Cells(pre.width, pre.height) :
                           GetPixel(pre, rc[1], rc[2]) = GetPixel(pre, 0, 0)
        IN  /\ ~EnergyFault(pre)
            /\ energy.width = pre.width /\ energy.height = pre.height
            /\ Len(energy.datum) = pre.width * pre.height
            /\ \A rc \in inner :
                   At(energy, rc[1], rc[2]) =
                       SqDist(pre, rc[1] - 1, rc[2], rc[1] + 1, rc[2])
                           + SqDist(pre, rc[1], rc[2] + 1, rc[1], rc[2] - 1)
            /\ \A rc \in edge :
                   /\ At(energy, rc[1], rc[2]) >= 1
                   /\ \A in \in inner : At(energy, rc[1], rc[2]) >= At(energy, in[1], in[2])
                   /\ \/ \E in \in inner : At(energy, rc[1], rc[2]) = At(energy, in[1], in[2])
                      \/ /\ At(energy, rc[1], rc[2]) = 1
                         /\ \A in \in inner : At(energy, in[1], in[2]) = 0
            /\ uniform =>
                   /\ \A rc \in inner : At(energy, rc[1], rc[2]) = 0
                   /\ \A rc \in edge : At(energy, rc[1], rc[2]) = 1

\* An energy map with both a positive and a zero interior cell.
C12_Witness ==
    /\ Removed /\ fault = "none"
    /\ pre.width >= 4 /\ pre.height >= 4
    /\ \E r \in 1..(pre.height - 2), c \in 1..(pre.width - 2) :
           At(Energy(pre), r, c) > 1
    /\ \E r \in 1..(pre.height - 2), c \in 1..(pre.width - 2) :
           At(Energy(pre), r, c) = 0

---------------------------------------------------------------------------
(* The read-only methods of the seam carver, called on the initial images: *)
(* they leave the image as it is and either return or panic.               *)

EnergyOp ==
    Do(Call("energy", -1, -1),
       IF EnergyFault(img) THEN Panic(img, "index") ELSE Ok(img))

VerticalCostOp ==
    Do(Call("vertical_cost", -1, -1),
       IF EnergyFault(img) THEN Panic(img, "index") ELSE Ok(img))

MinimalVerticalSeamOp ==
    Do(Call("minimal_vertical_seam", -1, -1),
       IF MinimalVerticalSeam(img).fault # "none"
       THEN Panic(img, MinimalVerticalSeam(img).fault) ELSE Ok(img))

\* The matrix a min_in_row_range call is made on: the cost matrix the seam
\* search scans, or a colour channel of the image.
QueryMatrix(i, which) ==
    IF which = "cost" THEN VerticalCost(i) ELSE i.red_channel

\* matrix.min_in_row_range(row, column_start, column_end); last.h, last.x
\* and last.y record the row and the two ends of the range.
MinInRowRangeOp ==
    /\ last.op = "none"
    /\ \E which \in {"cost", "red_channel"} :
       \E row \in {0, img.height - 1, img.height} \cap Nat :
       \E column_start \in 0..img.width, column_end \in 0..(img.width + 1) :
        /\ which = "cost" => ~EnergyFault(img)
        /\ Do(CallWith("min_in_row_range", -1, row, which, "None", "None",
                       column_start, column_end),
              Ok(img))

NextQuery ==
    \/ Resume
    \/ EnergyOp
    \/ VerticalCostOp
    \/ MinimalVerticalSeamOp
    \/ MinInRowRangeOp

SpecQuery == Init /\ [][NextQuery]_vars

\* C13: on every image whose width or height is 0, 1 or 2 energy returns
\* normally with a matrix of the image's shape whose every cell holds the
\* border-fill value (1, the interior being empty).
C13_EnergyOfThinImageIsBorderFill ==
    (last.op = "energy" /\ (pre.width <= 2 \/ pre.height <= 2)) =>
        /\ fault = "none"
        /\ Energy(pre).width = pre.width /\ Energy(pre).height = pre.height
        /\ Len(Energy(pre).datum) = pre.width * pre.height
        /\ \A k \in 1..Len(Energy(pre).datum) : Energy(pre).datum[k] = 1

\* The same for images without an empty side.
C13_NonEmptyThinImage ==
    (last.op = "energy" /\ (pre.width <= 2 \/ pre.height <= 2)
        /\ pre.width >= 1 /\ pre.height >= 1) =>
        /\ fault = "none"
        /\ Energy(pre).width = pre.width /\ Energy(pre).height = pre.height
        /\ Len(Energy(pre).datum) = pre.width * pre.height
        /\ \A k \in 1..Len(Energy(pre).datum) : Energy(pre).datum[k] = 1

\* The cells of row r - 1 a path can reach cell (r, c) from.
Above(width, r, c) == { <<r - 1, d>> : d \in {c - 1, c, c + 1} \cap (0..(width - 1)) }

\* C14: on an image with width >= 1 and height >= 1 vertical_cost returns a
\* matrix of the image's shape whose row 0 is row 0 of the energy and whose
\* cell (r, c), r >= 1, is energy[r, c] plus the least cost[r - 1, c'] over
\* the columns c' of {c - 1, c, c + 1} inside the image.
C14_VerticalCostRecurrence ==
    (last.op = "vertical_cost" /\ pre.width >= 1 /\ pre.height >= 1) =>
        LET energy == Energy(pre)
            cost == VerticalCost(pre)
        IN  /\ fault = "none"
            /\ cost.width = pre.width /\ cost.height = pre.height
            /\ Len(cost.datum) = pre.width * pre.height
            /\ \A c \in 0..(pre.width - 1) : At(cost, 0, c) = At(energy, 0, c)
            /\ \A r \in 1..(pre.height - 1), c \in 0..(pre.width - 1) :
                   LET least == At(cost, r, c) - At(energy, r, c)
                   IN  /\ \A a \in Above(pre.width, r, c) : least <= At(cost, a[1], a[2])
                       /\ \E a \in Above(pre.width, r, c) : least = At(cost, a[1], a[2])

\* A cost table with a cell whose least predecessor is only the one up and
\* to the right, and a cell whose least predecessor is only the one up and
\* to the left.
C14_Witness ==
    /\ last.op = "vertical_cost" /\ fault = "none"
    /\ pre.width >= 3 /\ pre.height >= 3
    /\ LET cost == VerticalCost(pre)
       IN  /\ \E r \in 1..(pre.height - 1), c \in 0..(pre.width - 2) :
                  /\ At(cost, r - 1, c + 1) < At(cost, r - 1, c)
                  /\ c > 0 => At(cost, r - 1, c + 1) < At(cost, r - 1, c - 1)
           /\ \E r \in 1..(pre.height - 1), c \in 1..(pre.width - 1) :
                  /\ At(cost, r - 1, c - 1) < At(cost, r - 1, c)
                  /\ c < pre.width - 1 => At(cost, r - 1, c - 1) < At(cost, r - 1, c + 1)

\* C15: for row < height and 0 <= start < end <= width, min_in_row_range
\* returns (c, v) with v the minimum of the row over the columns [start, end)
\* and c the smallest column of the range holding v; it returns no result
\* exactly when row >= height, start >= end or end > width.
C15_MinInRowRangeLeftmostMinimum ==
    last.op = "min_in_row_range" =>
        LET m     == QueryMatrix(pre, last.method)
            found == MinInRowRange(m, last.h, last.x, last.y)
            range == last.x..(last.y - 1)
        IN  /\ fault = "none"
            /\ found.some <=>
                   (last.h < m.height /\ last.x < last.y /\ last.y <= m.width)
            /\ found.some =>
                   /\ found.index \in range
                   /\ found.val = At(m, last.h, found.index)
                   /\ \A c \in range : found.val <= At(m, last.h, c)
                   /\ \A c \in range :
                          At(m, last.h, c) = found.val => found.index <= c

\* A range whose minimum occurs in two columns, the first of them after the
\* first column of the range.
C15_Witness ==
    /\ last.op = "min_in_row_range"
    /\ fault = "none"
    /\ LET m     == QueryMatrix(pre, last.method)
           found == MinInRowRange(m, last.h, last.x, last.y)
       IN  /\ found.some
           /\ found.index > last.x
           /\ \E c \in (found.index + 1)..(last.y - 1) :
                  At(m, last.h, c) = found.val

\* C25: the seam returned by minimal_vertical_seam is connected: it has
\* exactly one column per row and the columns of adjacent rows differ by at
\* most 1.
C25_SeamIsConnected ==
    (last.op = "minimal_vertical_seam" /\ fault = "none") =>
        LET found == MinimalVerticalSeam(pre)
        IN  /\ found.fault = "none"
            /\ Len(found.seam) = pre.height
            /\ \A r \in 1..(pre.height - 1) :
                   /\ found.seam[r] - found.seam[r + 1] <= 1
                   /\ found.seam[r + 1] - found.seam[r] <= 1

\* A returned seam that moves to the left in one row and to the right in
\* another.
C25_Witness ==
    /\ last.op = "minimal_vertical_seam" /\ fault = "none"
    /\ pre.height >= 3
    /\ \E r \in 1..(pre.height - 1) :
           MinimalVerticalSeam(pre).seam[r] = MinimalVerticalSeam(pre).seam[r + 1] + 1
    /\ \E r \in 1..(pre.height - 1) :
           MinimalVerticalSeam(pre).seam[r] + 1 = MinimalVerticalSeam(pre).seam[r + 1]

\* A seam_carve call that shrinks both axes to targets of at least 1.
C26_ShrinksBoth ==
    /\ last.op = "seam_carve"
    /\ 1 <= last.w /\ last.w < pre.width
    /\ 1 <= last.h /\ last.h < pre.height

\* C26: whenever seam_carve shrinks both axes, carving the width first (as
\* seam_carve does) and carving the height first both return, and both give
\* an image of target_width x target_height with well-formed channels; the
\* order matters only for the pixels, and an image and targets on which the
\* two pixel grids differ exist (the witness).
C26_BothOrdersReachTheTargets ==
    C26_ShrinksBoth =>
        LET other == SeamCarveHeightFirst(pre, last.w, last.h)
        IN  /\ fault = "none" /\ other.fault = "none"
            /\ img.width = last.w /\ img.height = last.h
            /\ other.img.width = img.width /\ other.img.height = img.height
            /\ WellFormed(img) /\ WellFormed(other.img)
            /\ removals = other.removals

\* Width-first and height-first results of the same dimensions that differ
\* in at least one pixel.
C26_Witness ==
    /\ C26_ShrinksBoth /\ fault = "none"
    /\ LET other == SeamCarveHeightFirst(pre, last.w, last.h).img
       IN  /\ other.width = img.width /\ other.height = img.height
           /\ \E row \in 0..(img.height - 1), col \in 0..(img.width - 1) :
                  GetPixel(img, row, col) # GetPixel(other, row, col)

\* C27: seam_carve_width with a target greater than the current width
\* returns without fault, removes no seam and leaves the image (width,
\* height and the three channels) exactly as it was.
C27_LargerTargetIsNoOp ==
    (last.op = "seam_carve_width" /\ last.w > pre.width) =>
        /\ fault = "none"
        /\ removals = 0
        /\ img = pre

\* A larger target asked of an image that has pixels.
C27_Witness ==
    /\ last.op = "seam_carve_width" /\ last.w > pre.width
    /\ pre.width >= 3 /\ pre.height >= 3
    /\ fault = "none" /\ img.width = pre.width

\* seam_carve_width(k) followed by seam_carve_width(j) on the image i.
CarvedInTwoCalls(i, k, j) ==
    The({ Then(first, SeamCarveWidth(first.img, j)) :
            first \in {SeamCarveWidth(i, k)} })

\* C29: seam carving keeps no history between calls: on an image with
\* height >= 1, for j <= k <= width, seam_carve_width(k) followed by
\* seam_carve_width(j) returns exactly the image (width, height and the
\* three channels) that the single call seam_carve_width(j) returns, after
\* the same number of removals; the result of a call is a function of the
\* image and the target alone.
C29_CarveKeepsNoHistory ==
    (last.op = "seam_carve_width" /\ pre.height >= 1
        /\ 0 <= last.w /\ last.w <= pre.width) =>
        /\ fault = "none"
        /\ \A k \in last.w..pre.width :
               /\ CarvedInTwoCalls(pre, k, last.w).fault = "none"
               /\ CarvedInTwoCalls(pre, k, last.w).img = img
               /\ CarvedInTwoCalls(pre, k, last.w).removals = removals

\* A single call that removed at least three seams from a marked image, so
\* that it can be split into two calls that each remove a seam.
C29_Witness ==
    /\ last.op = "seam_carve_width" /\ fault = "none"
    /\ pre.height >= 2 /\ pre.width - last.w >= 3 /\ last.w >= 1
    /\ removals = pre.width - last.w
    /\ \E row \in 0..(pre.height - 1), col \in 0..(pre.width - 1) :
           GetPixel(pre, row, col) # Background
    /\ CarvedInTwoCalls(pre, last.w + 1, last.w).img = img

\* One seam removal from an image that has pixels and a side below 3.
C30_Degenerate ==
    Removed /\ (pre.width < 3 \/ pre.height < 3)

---------------------------------------------------------------------------
(* Sequences of all the public operations that can change the shape of an  *)
(* image, from the initial images without marks.                           *)

InitOps ==
    /\ img \in {i \in Decoded :
                  \A row \in 0..(i.height - 1), col \in 0..(i.width - 1) :
                      GetPixel(i, row, col) = Background}
    /\ pre = img
    /\ last = Call("none", -1, -1)
    /\ fault = "none"
    /\ removals = 0

CropOp ==
    /\ last.op = "none"
    /\ \E new_width \in Near(img.width), new_height \in Near(img.height),
       method \in CropMethod, rect_center_x \in {-1, 0, 2}, rect_center_y \in {-1, 0, 2} :
        /\ method # "Rectangular" => rect_center_x = -1 /\ rect_center_y = -1
        /\ Do(CallWith("crop", new_width, new_height, method, "None", "None",
                       rect_center_x, rect_center_y),
              Crop(img, new_width, new_height, method, rect_center_x, rect_center_y))

CropLeftOp ==
    /\ last.op = "none"
    /\ \E new_width \in Near(img.width) :
        Do(Call("crop_left", new_width, -1), CropLeft(img, new_width))

CropRightOp ==
    /\ last.op = "none"
    /\ \E new_width \in Near(img.width) :
        Do(Call("crop_right", new_width, -1), CropRight(img, new_width))

CropTopOp ==
    /\ last.op = "none"
    /\ \E new_height \in Near(img.height) :
        Do(Call("crop_top", -1, new_height), CropTop(img, new_height))

CropBottomOp ==
    /\ last.op = "none"
    /\ \E new_height \in Near(img.height) :
        Do(Call("crop_bottom", -1, new_height), CropBottom(img, new_height))

CropRectOp ==
    /\ last.op = "none"
    /\ \E new_width \in Near(img.width), new_height \in Near(img.height),
       x_offset \in 0..1, y_offset \in 0..1 :
        Do(CallWith("crop_rect", new_width, new_height, "None", "None", "None",
                    x_offset, y_offset),
           CropRect(img, new_width, new_height, x_offset, y_offset))

CropWidthOp ==
    /\ last.op = "none"
    /\ \E new_width \in Near(img.width), method \in CropMethod :
        Do(CallWith("crop_width", new_width, -1, method, "None", "None", -1, -1),
           CropWidth(img, new_width, method))

CropHeightOp ==
    /\ last.op = "none"
    /\ \E new_height \in Near(img.height), method \in CropMethod :
        Do(CallWith("crop_height", -1, new_height, method, "None", "None", -1, -1),
           CropHeight(img, new_height, method))

ScaleOp ==
    /\ last.op = "none"
    /\ \E new_width \in Targets(img.width), new_height \in Targets(img.height),
       method \in ScaleMethod :
        Do(CallWith("scale", new_width, new_height, method, "None", "None", -1, -1),
           Scale(img, new_width, new_height, method))

ResizeOp ==
    /\ last.op = "none"
    /\ \E target_width \in Targets(img.width) \ {0, 1, Cap},
       target_height \in Targets(img.height) \ {0, 1, Cap},
       method \in ScaleMethod,
       crop_x \in {"None", "Left", "Right", "LeftRight", "Top"},
       crop_y \in {"None", "Top", "Bottom", "TopBottom", "Left"} :
        Do(CallWith("resize", target_width, target_height, method, crop_x, crop_y,
                    -1, -1),
           Resize(img, target_width, target_height, method, crop_x, crop_y))

MirrorXOp == Do(Call("mirror_x", -1, -1), MirrorX(img))

MirrorYOp == Do(Call("mirror_y", -1, -1), MirrorY(img))

TransposeOp == Do(Call("transpose", -1, -1), Transpose(img))

NextOps ==
    \/ Resume
    \/ CropOp
    \/ CropLeftOp
    \/ CropRightOp
    \/ CropTopOp
    \/ CropBottomOp
    \/ CropRectOp
    \/ CropWidthOp
    \/ CropHeightOp
    \/ ScaleOp
    \/ ResizeOp
    \/ RotateLeftOp
    \/ RotateRightOp
    \/ MirrorXOp
    \/ MirrorYOp
    \/ TransposeOp
    \/ RemoveVerticalSeamOp
    \/ SeamCarveWidthOp
    \/ SeamCarveHeightOp
    \/ SeamCarveOp

SpecOps == InitOps /\ [][NextOps]_vars

\* C9: after any sequence of public operations every channel matrix has
\* datum.len() == width * height (over the crops, scale, resize, the
\* rotations, mirrors, transpose and the seam operations).
C9_DatumLengthIsWidthTimesHeight ==
    fault = "none" =>
        /\ Len(img.red_channel.datum) = img.red_channel.width * img.red_channel.height
        /\ Len(img.green_channel.datum)
               = img.green_channel.width * img.green_channel.height
        /\ Len(img.blue_channel.datum) = img.blue_channel.width * img.blue_channel.height

\* C10: after every public operation the three channel matrices have the
\* same width and the same height.
C10_ChannelsSameShape ==
    fault = "none" =>
        /\ img.red_channel.width = img.green_channel.width
        /\ img.green_channel.width = img.blue_channel.width
        /\ img.red_channel.height = img.green_channel.height
        /\ img.green_channel.height = img.blue_channel.height

\* A call that returned with both sides of the image changed.
C10_Witness ==
    /\ last.op \in {"crop", "resize", "scale", "seam_carve"} /\ fault = "none"
    /\ img.width # pre.width /\ img.height # pre.height
    /\ img.width >= 1 /\ img.height >= 1
    /\ img.red_channel.width = img.width

\* The axes a resize call shrinks without a crop method for them.
ShrinksX == last.w < pre.width
ShrinksY == last.h < pre.height
MissingX == ShrinksX /\ last.crop_x = "None"
MissingY == ShrinksY /\ last.crop_y = "None"

\* C16: resize fails with the missing-crop-method fault whenever
\* target_width < width and crop_x is absent, or target_height < height and
\* crop_y is absent, and it never raises that fault for an axis that does
\* not shrink or whose crop method is supplied.
C16_MissingCropMethodFault ==
    last.op = "resize" =>
        /\ (MissingX \/ MissingY) => fault = "missing_crop"
        /\ fault = "missing_crop" => (MissingX \/ MissingY)

\* The same with every supplied method one the axis accepts and the width
\* step free of any other panic.
C16_ValidMethods ==
    (/\ last.op = "resize"
     /\ last.crop_x \in {"None", "Left", "Right", "LeftRight"}
     /\ last.crop_y \in {"None", "Top", "Bottom", "TopBottom"}) =>
        /\ (MissingX \/ MissingY) => fault = "missing_crop"
        /\ fault = "missing_crop" => (MissingX \/ MissingY)

\* The same on images whose channels hold width * height cells.
C16_ValidMethodsWellFormed ==
    (/\ last.op = "resize"
     /\ WellFormed(pre)
     /\ last.crop_x \in {"None", "Left", "Right", "LeftRight"}
     /\ last.crop_y \in {"None", "Top", "Bottom", "TopBottom"}) =>
        /\ (MissingX \/ MissingY) => fault = "missing_crop"
        /\ fault = "missing_crop" => (MissingX \/ MissingY)

\* A resize call inside the domain of C17.
ResizeInDomain ==
    /\ last.op = "resize"
    /\ pre.width >= 1 /\ pre.height >= 1
    /\ last.w >= 1 /\ last.h >= 1
    /\ last.crop_x \in {"Left", "Right", "LeftRight"}
    /\ last.crop_y \in {"Top", "Bottom", "TopBottom"}

\* C17: for any image with width, height >= 1, any targets >= 1, any scale
\* method, crop_x in {Left, Right, LeftRight} and crop_y in {Top, Bottom,
\* TopBottom}, resize ends with image width = target_width and height =
\* target_height, whichever mix of growing and shrinking the axes need.
C17_ResizeReachesTargets ==
    ResizeInDomain =>
        /\ fault = "none"
        /\ img.width = last.w
        /\ img.height = last.h

\* The same on images whose channels hold width * height cells.
C17_WellFormedInput ==
    (ResizeInDomain /\ WellFormed(pre)) =>
        /\ fault = "none"
        /\ img.width = last.w
        /\ img.height = last.h

\* A crop call inside the domain of C18.
CropInDomain ==
    /\ last.op = "crop"
    /\ 1 <= last.w /\ last.w <= pre.width
    /\ 1 <= last.h /\ last.h <= pre.height

\* C18: for any image and any new_width, new_height with 1 <= new_width <=
\* width and 1 <= new_height <= height, crop leaves the image with exactly
\* width = new_width and height = new_height, for every one of the eleven
\* CropMethod values.
C18_CropReachesBothTargets ==
    CropInDomain =>
        /\ fault = "none"
        /\ img.width = last.w
        /\ img.height = last.h

\* What crop does on an image whose channels hold width * height cells:
\* the one-axis methods leave the other side as it was, the two-axis
\* methods and the centred rectangle reach both targets.
C18_WellFormedInput ==
    (CropInDomain /\ WellFormed(pre) /\ last.x = -1 /\ last.y = -1) =>
        /\ fault = "none"
        /\ img.width = IF last.method \in {"Top", "Bottom", "TopBottom"}
                       THEN pre.width ELSE last.w
        /\ img.height = IF last.method \in {"Left", "Right", "LeftRight"}
                        THEN pre.height ELSE last.h

---------------------------------------------------------------------------
(* Crops of the decoded images, whose marked pixels tell the cells apart.  *)

NextCrop ==
    \/ Resume
    \/ CropOp

SpecCrop == Init /\ [][NextCrop]_vars

\* The offsets a rectangular crop uses: the supplied ones, or the centred
\* ones when absent.
RectX == IF last.x = -1 THEN (pre.width - last.w) \div 2 ELSE last.x
RectY == IF last.y = -1 THEN (pre.height - last.h) \div 2 ELSE last.y

\* C19: rectangular crop is pure reslicing: for 1 <= new_width <= width,
\* 1 <= new_height <= height and any supplied offsets (centred when absent),
\* whenever crop returns normally every output pixel (r, c) equals the
\* source pixel at (y_off + r, x_off + c), and that source coordinate lies
\* inside the original image.
C19_RectangularCropReslices ==
    (CropInDomain /\ last.method = "Rectangular" /\ fault = "none") =>
        \A r \in 0..(last.h - 1), c \in 0..(last.w - 1) :
            /\ RectY + r < pre.height
            /\ RectX + c < pre.width
            /\ GetPixel(img, r, c) = GetPixel(pre, RectY + r, RectX + c)

\* The same for offsets that keep the rectangle inside the image, on images
\* whose channels hold width * height cells.
C19_RectangleInside ==
    (/\ CropInDomain /\ last.method = "Rectangular"
     /\ WellFormed(pre)
     /\ RectX + last.w <= pre.width /\ RectY + last.h <= pre.height) =>
        /\ fault = "none"
        /\ img.width = last.w /\ img.height = last.h
        /\ \A r \in 0..(last.h - 1), c \in 0..(last.w - 1) :
               GetPixel(img, r, c) = GetPixel(pre, RectY + r, RectX + c)

---------------------------------------------------------------------------
(* The two-sided crops through both entry points: Image::crop, and the     *)
(* crop_width / crop_height calls that resize makes.                       *)

NextTwoSided ==
    \/ Resume
    \/ CropOp
    \/ CropWidthOp
    \/ CropHeightOp

SpecTwoSided == Init /\ [][NextTwoSided]_vars

\* A LeftRight crop of the width of an image that has pixels to
\* 1 <= new_width <= width, through either entry point.
LeftRightCrop ==
    /\ last.method = "LeftRight"
    /\ \/ CropInDomain
       \/ /\ last.op = "crop_width" /\ 1 <= last.w /\ last.w <= pre.width
          /\ pre.height >= 1

\* A TopBottom crop of the height to 1 <= new_height <= height.
TopBottomCrop ==
    /\ last.method = "TopBottom"
    /\ \/ CropInDomain
       \/ /\ last.op = "crop_height" /\ 1 <= last.h /\ last.h <= pre.height
          /\ pre.width >= 1

\* What the other entry point makes of the same image and target.
OtherEntryPoint ==
    CASE last.op = "crop" /\ last.method = "LeftRight" ->
            CropWidth(pre, last.w, "LeftRight")
      [] last.op = "crop" /\ last.method = "TopBottom" ->
            CropHeight(pre, last.h, "TopBottom")
      [] last.op = "crop_width" ->
            Crop(pre, last.w, pre.height, "LeftRight", -1, -1)
      [] last.op = "crop_height" ->
            Crop(pre, pre.width, last.h, "TopBottom", -1, -1)
      [] OTHER -> Ok(pre)

\* The call returned an image of the source's columns
\* [floor(d/2), floor(d/2) + new_width), every row kept.
KeepsMiddleColumns ==
    /\ fault = "none"
    /\ img.width = last.w /\ img.height = pre.height
    /\ \A row \in 0..(img.height - 1), col \in 0..(img.width - 1) :
           GetPixel(img, row, col)
               = GetPixel(pre, row, col + (pre.width - last.w) \div 2)

\* The call returned an image of the source's rows
\* [floor(d/2), floor(d/2) + new_height), every column kept.
KeepsMiddleRows ==
    /\ fault = "none"
    /\ img.width = pre.width /\ img.height = last.h
    /\ \A row \in 0..(img.height - 1), col \in 0..(img.width - 1) :
           GetPixel(img, row, col)
               = GetPixel(pre, row + (pre.height - last.h) \div 2, col)

\* The other entry point returns too, with the same pixel grid.
EntryPointsAgree ==
    /\ OtherEntryPoint.fault = "none"
    /\ SamePixels(img, OtherEntryPoint.img)

\* C28: a LeftRight crop that removes d = width - new_width columns keeps
\* exactly the source columns [floor(d/2), floor(d/2) + new_width), a
\* TopBottom crop that removes d rows keeps the rows
\* [floor(d/2), floor(d/2) + new_height), and Image::crop and crop_width /
\* crop_height give pixel-identical results for these methods.
C28_TwoSidedCropsSplitEvenly ==
    /\ LeftRightCrop => (KeepsMiddleColumns /\ EntryPointsAgree)
    /\ TopBottomCrop => (KeepsMiddleRows /\ EntryPointsAgree)

\* The same on images whose channels hold width * height cells.
C28_WellFormedInput ==
    WellFormed(pre) => C28_TwoSidedCropsSplitEvenly

\* A two-sided crop of a well-formed image that removes an odd number of
\* columns or rows, at least three.
C28_OddSplit ==
    /\ WellFormed(pre) /\ fault = "none"
    /\ \/ LeftRightCrop /\ pre.width - last.w = 3
       \/ TopBottomCrop /\ pre.height - last.h = 3

---------------------------------------------------------------------------
(* The native codec (src/src/img/io.rs).  A PPM stream is a sequence of    *)
(* bytes; from_bytes decodes it line by line and token by token, bytes     *)
(* encodes the image in its own format.  A decoding error is a returned    *)
(* Err, not a panic.                                                       *)

\* The ASCII codes the codec looks at.
Byte ==
    [nl |-> 10, cr |-> 13, space |-> 32, hash |-> 35, plus |-> 43, zero |-> 48,
     three |-> 51, six |-> 54, P |-> 80]

\* char::is_whitespace on ASCII: tab, line feed, vertical tab, form feed,
\* carriage return and space.
IsWhitespace(b) == b \in {9, 10, 11, 12, 13, 32}

IsDigit(b) == Byte.zero <= b /\ b <= Byte.zero + 9

\* A line read into a String must be UTF-8; of the bytes used here only
\* those below 128 are.
IsUtf8(s) == \A k \in 1..Len(s) : s[k] < 128

Err == [ok |-> FALSE]

\* str::parse::<usize>: an optional '+', then one or more decimal digits
\* and nothing else (the values here stay far below usize::MAX).
RECURSIVE DigitsValue(_, _)
DigitsValue(digits, acc) ==
    IF digits = <<>> THEN acc
    ELSE DigitsValue(Tail(digits), 10 * acc + (Head(digits) - Byte.zero))

ParseUsize(token) ==
    \E digits \in {IF token # <<>> /\ Head(token) = Byte.plus
                   THEN Tail(token) ELSE token} :
        digits # <<>> /\ \A k \in 1..Len(digits) : IsDigit(digits[k])

ParsedUsize(token) ==
    DigitsValue(IF Head(token) = Byte.plus THEN Tail(token) ELSE token, 0)

\* The index of the first line feed of s, 0 when there is none.
NewlineAt(s) ==
    IF \E k \in 1..Len(s) : s[k] = Byte.nl
    THEN CHOOSE k \in 1..Len(s) :
             s[k] = Byte.nl /\ \A j \in 1..(k - 1) : s[j] # Byte.nl
    ELSE 0

\* BufRead::lines: the lines without their line feed (and without the
\* carriage return before it); bytes after the last line feed are a line.
RECURSIVE Lines(_)
Lines(s) ==
    IF s = <<>> THEN <<>>
    ELSE The({ IF k = 0 THEN <<s>>
               ELSE << IF k >= 2 /\ s[k - 1] = Byte.cr
                       THEN SubSeq(s, 1, k - 2) ELSE SubSeq(s, 1, k - 1) >>
                    \o Lines(SubSeq(s, k + 1, Len(s)))
               : k \in {NewlineAt(s)} })

\* BufRead::read_line: the bytes up to and including the first line feed,
\* or all of them.
ReadLine(s) ==
    The({ IF k = 0 THEN [line |-> s, rest |-> <<>>]
          ELSE [line |-> SubSeq(s, 1, k), rest |-> SubSeq(s, k + 1, Len(s))]
          : k \in {NewlineAt(s)} })

\* str::trim
RECURSIVE TrimStart(_)
TrimStart(s) ==
    IF s # <<>> /\ IsWhitespace(Head(s)) THEN TrimStart(Tail(s)) ELSE s

RECURSIVE TrimEnd(_)
TrimEnd(s) ==
    IF s # <<>> /\ IsWhitespace(s[Len(s)])
    THEN TrimEnd(SubSeq(s, 1, Len(s) - 1)) ELSE s

Trim(s) == TrimEnd(TrimStart(s))

\* The length of the run of non-whitespace bytes s starts with.
RECURSIVE TokenLen(_)
TokenLen(s) ==
    IF s = <<>> \/ IsWhitespace(Head(s)) THEN 0 ELSE 1 + TokenLen(Tail(s))

\* str::split_whitespace
RECURSIVE SplitWhitespace(_)
SplitWhitespace(s) ==
    IF s = <<>> THEN <<>>
    ELSE IF IsWhitespace(Head(s)) THEN SplitWhitespace(Tail(s))
    ELSE The({ <<SubSeq(s, 1, n)>> \o SplitWhitespace(SubSeq(s, n + 1, Len(s)))
               : n \in {TokenLen(s)} })

StartsWithHash(line) == line # <<>> /\ Head(line) = Byte.hash

\* Matrix::from_vec on data of length width * height.
FromVec(width, height, data) == [width |-> width, height |-> height, datum |-> data]

\* Faulty variant: the green and the blue value are taken from each
\* other's place.
ChannelSwapped(width, height, values, offset) ==
    FromVec(width, height,
            [k \in 1..(width * height) |->
                values[3 * (k - 1) + (IF offset = 1 THEN 1 ELSE 5 - offset)]])

\* The channel made of every third pixel value, starting at `offset`
\* (chunk[0], chunk[1], chunk[2] of pixel_values.chunks(3)).
Channel(width, height, values, offset) ==
    FromVec(width, height,
            [k \in 1..(width * height) |-> values[3 * (k - 1) + offset]])

\* The Ok(Image { .. }) both parsers end with.
PpmImage(width, height, intensity, format, values) ==
    [ok |-> TRUE,
     image |-> [width |-> width, height |-> height,
                max_intensity |-> intensity, format |-> format,
                red_channel |-> Channel(width, height, values, 1),
                green_channel |-> Channel(width, height, values, 2),
                blue_channel |-> Channel(width, height, values, 3)]]

\* for line in &mut lines { if !l.starts_with('#') { .. break } }: the
\* index of the line taken from `from` on, 0 when the lines run out.
RECURSIVE NextDataLine(_, _)
NextDataLine(lines, from) ==
    IF from > Len(lines) THEN 0
    ELSE IF ~StartsWithHash(lines[from]) THEN from
    ELSE NextDataLine(lines, from + 1)

\* The whitespace-separated tokens of the lines from `from` on.
RECURSIVE FlatTokens(_, _)
FlatTokens(lines, from) ==
    IF from > Len(lines) THEN <<>>
    ELSE SplitWhitespace(lines[from]) \o FlatTokens(lines, from + 1)

\* parse_ppm_ascii from the pixel values on.
AsciiPixels(lines, from, width, height, intensity) ==
    The({ IF \E k \in 1..Len(tokens) : ~ParseUsize(tokens[k]) THEN Err
          ELSE IF Len(tokens) # width * height * 3 THEN Err
          ELSE PpmImage(width, height, intensity, "P3",
                        [k \in 1..Len(tokens) |-> ParsedUsize(tokens[k])])
          : tokens \in {FlatTokens(lines, from)} })

\* parse_ppm_ascii from the intensity line on; an exhausted iterator leaves
\* the empty line, which does not parse.
AsciiIntensity(lines, from, width, height) ==
    The({ The({ IF ~ParseUsize(line) THEN Err
                ELSE AsciiPixels(lines, m + 1, width, height, ParsedUsize(line))
                : line \in {IF m = 0 THEN <<>> ELSE Trim(lines[m])} })
          : m \in {NextDataLine(lines, from)} })

\* parse_ppm_ascii on the lines that follow the two magic bytes: the rest
\* of the magic line, the dimensions line, the intensity line, the values.
ParsePpmAscii(rest) ==
    The({ IF lines = <<>> THEN Err
          ELSE The({ The({ IF Len(dims) < 2 THEN Err
                           ELSE IF ~ParseUsize(dims[1]) \/ ~ParseUsize(dims[2]) THEN Err
                           ELSE AsciiIntensity(lines, d + 1, ParsedUsize(dims[1]),
                                               ParsedUsize(dims[2]))
                           : dims \in {IF d = 0 THEN <<>>
                                       ELSE SplitWhitespace(lines[d])} })
                     : d \in {NextDataLine(lines, 2)} })
          : lines \in {Lines(rest)} })

\* loop { read_line; if !line.trim().starts_with('#') { break } }: the
\* first line that is no comment (the empty line at the end of the stream).
RECURSIVE ReadDataLine(_)
ReadDataLine(s) ==
    The({ IF ~IsUtf8(read.line) THEN Err
          ELSE IF StartsWithHash(Trim(read.line)) THEN ReadDataLine(read.rest)
          ELSE [ok |-> TRUE, line |-> read.line, rest |-> read.rest]
          : read \in {ReadLine(s)} })

\* parse_ppm_binary from the raw bytes on.
BinaryPixels(raw, width, height, intensity) ==
    IF Len(raw) # width * height * 3 THEN Err
    ELSE PpmImage(width, height, intensity, "P6", raw)

\* parse_ppm_binary from the intensity line on.
BinaryIntensity(s, width, height) ==
    The({ IF ~read.ok THEN Err
          ELSE IF ~ParseUsize(Trim(read.line)) THEN Err
          ELSE BinaryPixels(read.rest, width, height, ParsedUsize(Trim(read.line)))
          : read \in {ReadDataLine(s)} })

\* parse_ppm_binary on the bytes that follow the two magic bytes.
ParsePpmBinary(rest) ==
    The({ IF ~IsUtf8(header.line) THEN Err
          ELSE The({ IF ~read.ok THEN Err
                     ELSE The({ IF Len(dims) < 2 THEN Err
                                ELSE IF ~ParseUsize(dims[1]) \/ ~ParseUsize(dims[2])
                                THEN Err
                                ELSE BinaryIntensity(read.rest, ParsedUsize(dims[1]),
                                                     ParsedUsize(dims[2]))
                                : dims \in {SplitWhitespace(read.line)} })
                     : read \in {ReadDataLine(header.rest)} })
          : header \in {ReadLine(rest)} })

\* Image::from_bytes / from_reader: two magic bytes, then the parser.
FromBytes(data) ==
    IF Len(data) < 2 THEN Err
    ELSE IF SubSeq(data, 1, 2) = <<Byte.P, Byte.three>>
    THEN ParsePpmAscii(SubSeq(data, 3, Len(data)))
    ELSE IF SubSeq(data, 1, 2) = <<Byte.P, Byte.six>>
    THEN ParsePpmBinary(SubSeq(data, 3, Len(data)))
    ELSE Err

\* format!("{}", n) for a usize
RECURSIVE Decimal(_)
Decimal(n) ==
    IF n < 10 THEN <<Byte.zero + n>>
    ELSE Decimal(n \div 10) \o <<Byte.zero + (n % 10)>>

\* The three writeln! both writers start with.
WriteHeader(i, magic) ==
    <<Byte.P, magic, Byte.nl>>
        \o Decimal(i.width) \o <<Byte.space>> \o Decimal(i.height) \o <<Byte.nl>>
        \o Decimal(i.max_intensity) \o <<Byte.nl>>

\* write_ascii, one row from column `col` on: "r g b", a space unless
\* col is the last column, and the line feed after the row.
RECURSIVE AsciiRow(_, _, _)
AsciiRow(i, row, col) ==
    IF col >= i.width THEN <<Byte.nl>>
    ELSE The({ Decimal(pixel.r) \o <<Byte.space>> \o Decimal(pixel.g)
                   \o <<Byte.space>> \o Decimal(pixel.b)
                   \o (IF col < i.width - 1 THEN <<Byte.space>> ELSE <<>>)
                   \o AsciiRow(i, row, col + 1)
               : pixel \in {GetPixel(i, row, col)} })

RECURSIVE AsciiRows(_, _)
AsciiRows(i, row) ==
    IF row >= i.height THEN <<>>
    ELSE AsciiRow(i, row, 0) \o AsciiRows(i, row + 1)

WriteAscii(i) == WriteHeader(i, Byte.three) \o AsciiRows(i, 0)

\* write_binary: the header, then pixel.r as u8, pixel.g as u8, pixel.b as
\* u8 of every pixel in row-major order.
WriteBinary(i) ==
    WriteHeader(i, Byte.six)
        \o [k \in 1..(3 * i.width * i.height) |->
               The({ (CASE (k - 1) % 3 = 0 -> pixel.r
                        [] (k - 1) % 3 = 1 -> pixel.g
                        [] OTHER -> pixel.b) % 256
                     : pixel \in {GetPixel(i, ((k - 1) \div 3) \div i.width,
                                              ((k - 1) \div 3) % i.width)} })]

\* Image::bytes: the image in its own format.
Bytes(i) == IF i.format = "P3" THEN WriteAscii(i) ELSE WriteBinary(i)

\* The well-formed streams decoded here: both formats, sides up to
\* MaxSide, pixels from a palette whose samples include the codes of the
\* line feed and of '#', and three layouts of the same content.
Palette == {<<0, 0, 0>>, <<255, 10, 35>>}

Layouts == {"plain", "commented", "spread"}

Sources ==
    UNION { { [format |-> format, width |-> width, height |-> height,
               intensity |-> intensity, layout |-> layout, pixels |-> pixels] :
                pixels \in [1..(width * height) -> Palette],
                intensity \in IF format = "P3" THEN {255, 1000} ELSE {255},
                layout \in Layouts } :
            format \in {"P3", "P6"}, width \in 0..MaxSide, height \in 0..MaxSide }

\* The samples of a source in row-major order, three per pixel.
Samples(source) ==
    [k \in 1..(3 * source.width * source.height) |->
        source.pixels[((k - 1) \div 3) + 1][((k - 1) % 3) + 1]]

\* The header of a source: the magic line, the width/height line and the
\* max-intensity line, with comment lines or extra blanks by the layout.
SourceHeader(source) ==
    <<Byte.P, IF source.format = "P3" THEN Byte.three ELSE Byte.six, Byte.nl>>
        \o (IF source.layout = "commented"
            THEN <<Byte.hash, Byte.space, Byte.zero + 9, Byte.nl>> ELSE <<>>)
        \o Decimal(source.width)
        \o (IF source.layout = "spread" THEN <<Byte.space, Byte.space>>
            ELSE <<Byte.space>>)
        \o Decimal(source.height)
        \o (IF source.layout = "spread" THEN <<Byte.space>> ELSE <<>>)
        \o <<Byte.nl>>
        \o (IF source.layout = "commented"
            THEN <<Byte.hash, Byte.zero + 7, Byte.nl>> ELSE <<>>)
        \o Decimal(source.intensity)
        \o <<Byte.nl>>

\* The ASCII pixel data of a source from sample k on: one row per line
\* with single blanks, or (spread) one sample per line with a leading 0.
RECURSIVE SourceAscii(_, _)
SourceAscii(source, k) ==
    IF k > 3 * source.width * source.height THEN <<>>
    ELSE (IF source.layout = "spread" THEN <<Byte.zero>> ELSE <<>>)
         \o Decimal(Samples(source)[k])
         \o (IF source.layout = "spread" \/ k % (3 * source.width) = 0
             THEN <<Byte.nl>> ELSE <<Byte.space>>)
         \o SourceAscii(source, k + 1)

\* The byte stream of a source.
Stream(source) ==
    SourceHeader(source)
        \o (IF source.format = "P3" THEN SourceAscii(source, 1) ELSE Samples(source))

\* The calls of the codec: from_bytes(data) on the stream of `source`
\* returning Ok or Err, and bytes() returning `out`.
CodecCall(op, source, data, ok, out) ==
    [op |-> op, source |-> source, data |-> data, ok |-> ok, out |-> out]

\* Image::new(0, 0, 255, PPMFormat::P3)
EmptyImage ==
    [width |-> 0, height |-> 0, max_intensity |-> 255, format |-> "P3",
     red_channel |-> NewFilled(0, 0, 0), green_channel |-> NewFilled(0, 0, 0),
     blue_channel |-> NewFilled(0, 0, 0)]

InitCodec ==
    /\ img = EmptyImage
    /\ pre = img
    /\ last = Call("none", -1, -1)
    /\ fault = "none"
    /\ removals = 0

\* Image::from_bytes(data): the image becomes the decoded one, or the call
\* returns Err and nothing changes.  The call builds its image from the
\* bytes alone, so no earlier image is recorded in `pre`; a run decodes
\* its input before any other call, while it holds no image yet.
FromBytesOp ==
    /\ fault = "none"
    /\ last.op = "none"
    /\ img = EmptyImage
    /\ \E source \in Sources :
       \E data \in {Stream(source)} :
       \E decoded \in {FromBytes(data)} :
           /\ img' = IF decoded.ok THEN decoded.image ELSE img
           /\ last' = CodecCall("from_bytes", source, data, decoded.ok, <<>>)
    /\ pre' = EmptyImage
    /\ UNCHANGED <<fault, removals>>

\* image.bytes(), directly on the decoded image or later.
BytesOp ==
    /\ fault = "none"
    /\ \/ last.op = "none"
       \/ last.op = "from_bytes" /\ last.ok
    /\ last' = IF last.op = "from_bytes"
               THEN [last EXCEPT !.op = "bytes", !.out = Bytes(img)]
               ELSE CodecCall("bytes", [format |-> "none"], <<>>, FALSE, Bytes(img))
    /\ pre' = img
    /\ UNCHANGED <<img, fault, removals>>

NextCodec ==
    \/ Resume
    \/ FromBytesOp
    \/ BytesOp

SpecCodec == InitCodec /\ [][NextCodec]_vars

\* C20: native-format round trip: for any well-formed P3 or P6 byte stream
\* whose samples are at most 255, decoding with from_bytes and re-encoding
\* with bytes() in the image's own format yields the same width, height,
\* max intensity and the same pixel samples in the same row-major order.
C20_NativeRoundTrip ==
    (last.op \in {"from_bytes", "bytes"} /\ last.source.format # "none") =>
        /\ last.ok
        /\ img.width = last.source.width
        /\ img.height = last.source.height
        /\ img.max_intensity = last.source.intensity
        /\ img.format = last.source.format
        /\ last.op = "bytes" =>
              LET n       == 3 * last.source.width * last.source.height
                  numbers == <<Decimal(last.source.width), Decimal(last.source.height),
                               Decimal(last.source.intensity)>>
              IN  /\ img.format = "P3" =>
                        SplitWhitespace(last.out)
                            = <<<<Byte.P, Byte.three>>>> \o numbers
                              \o [k \in 1..n |-> Decimal(Samples(last.source)[k])]
                  /\ img.format = "P6" =>
                        /\ Len(last.out) >= n
                        /\ SubSeq(last.out, Len(last.out) - n + 1, Len(last.out))
                               = Samples(last.source)
                        /\ SplitWhitespace(SubSeq(last.out, 1, Len(last.out) - n))
                               = <<<<Byte.P, Byte.six>>>> \o numbers
                  /\ FromBytes(last.out) = [ok |-> TRUE, image |-> img]

\* A stream of two different pixels in a layout other than the encoder's,
\* decoded and encoded again.
C20_Witness ==
    /\ last.op = "bytes"
    /\ last.source.format # "none"
    /\ last.source.layout # "plain"
    /\ last.source.width * last.source.height >= 2
    /\ \E k \in 1..Len(last.source.pixels) :
           last.source.pixels[k] # last.source.pixels[1]
    /\ last.out # last.data

---------------------------------------------------------------------------
(* The pixel accessors (src/src/img/utils.rs), called once on an image the *)
(* program can hold: a decoded one, or one a crop_top / crop_bottom call   *)
(* has shortened.                                                          *)

\* Faulty variant: the blue sample is not written.
SetPixelTwoChannels(i, row, col, color) ==
    IF ~HasPixel(i, row, col) THEN Ok(i)
    ELSE IF ~PixelInRange(i, row, col) THEN Panic(i, "index")
    ELSE Ok([i EXCEPT !.red_channel = Put(@, row, col, color.r),
                      !.green_channel = Put(@, row, col, color.g)])

\* Image::set_pixel: inside the image the three channels are written
\* through IndexMut, outside nothing happens.
SetPixel(i, row, col, color) ==
    IF ~HasPixel(i, row, col) THEN Ok(i)
    ELSE IF ~PixelInRange(i, row, col) THEN Panic(i, "index")
    ELSE Ok([i EXCEPT !.red_channel = Put(@, row, col, color.r),
                      !.green_channel = Put(@, row, col, color.g),
                      !.blue_channel = Put(@, row, col, color.b)])

\* Image::get_pixel as an Option: None outside the image.
GetPixelOption(i, row, col) ==
    IF HasPixel(i, row, col)
    THEN [some |-> TRUE, pixel |-> GetPixel(i, row, col)]
    ELSE [some |-> FALSE, pixel |-> Background]

\* The images held when an accessor is called.
Held ==
    Decoded
        \cup { CropTop(i, i.height - 1).img : i \in {d \in Decoded : d.height >= 2} }
        \cup { CropBottom(i, 1).img : i \in {d \in Decoded : d.height >= 2} }

InitPixel ==
    /\ img \in Held
    /\ pre = img
    /\ last = Call("none", -1, -1)
    /\ fault = "none"
    /\ removals = 0

\* The colours written: one that differs from every pixel of a held image
\* in all three samples, and the background.
Inks == {PixelRGB(9, 8, 7), Background}

PixelCall(op, row, col, color) == [op |-> op, row |-> row, col |-> col, color |-> color]

\* image.set_pixel(row, col, color) at the corners of the image and just
\* outside its last row and column.
SetPixelOp ==
    /\ last.op = "none"
    /\ \E row \in {0, img.height - 1, img.height} \cap Nat,
          col \in {0, img.width - 1, img.width} \cap Nat,
          color \in Inks :
           Do(PixelCall("set_pixel", row, col, color), SetPixel(img, row, col, color))

\* image.get_pixel(row, col) at the same coordinates; the index of a
\* channel panics when the cell is not in its datum.
GetPixelOp ==
    /\ last.op = "none"
    /\ \E row \in {0, img.height - 1, img.height} \cap Nat,
          col \in {0, img.width - 1, img.width} \cap Nat :
           Do(PixelCall("get_pixel", row, col, Background),
              IF HasPixel(img, row, col) /\ ~PixelInRange(img, row, col)
              THEN Panic(img, "index") ELSE Ok(img))

NextPixel ==
    \/ SetPixelOp
    \/ GetPixelOp

SpecPixel == InitPixel /\ [][NextPixel]_vars

\* C21: set_pixel(row, col, colour) with row < height and col < width
\* updates the three samples at exactly that coordinate, so that get_pixel
\* there returns the colour, and changes no other pixel and no dimension;
\* with row >= height or col >= width it changes nothing and get_pixel
\* returns an absent result.
C21_SetPixelWritesOnePixel ==
    last.op = "set_pixel" =>
        /\ fault = "none"
        /\ img.width = pre.width /\ img.height = pre.height
        /\ (last.row < pre.height /\ last.col < pre.width) =>
              /\ GetPixelOption(img, last.row, last.col)
                     = [some |-> TRUE, pixel |-> last.color]
              /\ \A row \in 0..(pre.height - 1), col \in 0..(pre.width - 1) :
                     <<row, col>> # <<last.row, last.col>> =>
                         GetPixelOption(img, row, col) = GetPixelOption(pre, row, col)
        /\ (last.row >= pre.height \/ last.col >= pre.width) =>
              /\ img = pre
              /\ ~GetPixelOption(img, last.row, last.col).some

\* A pixel written in a new colour on an image that has a marked pixel
\* elsewhere.
C21_Witness ==
    /\ last.op = "set_pixel"
    /\ fault = "none"
    /\ last.row < pre.height /\ last.col < pre.width
    /\ GetPixel(pre, last.row, last.col) # last.color
    /\ \E row \in 0..(pre.height - 1), col \in 0..(pre.width - 1) :
           /\ <<row, col>> # <<last.row, last.col>>
           /\ GetPixel(pre, row, col) # Background

---------------------------------------------------------------------------
(* One scale call on an image the program can hold.                       *)

NextScale == ScaleOp

SpecScale == InitPixel /\ [][NextScale]_vars

\* C22: for any image with width, height >= 1 and any new_width,
\* new_height >= 1, nearest-neighbour scaling (ScaleMethod::Linear) gives a
\* new_width x new_height image whose pixel at (r, c) is the source pixel
\* at (floor(r * height / new_height), floor(c * width / new_width)); scale
\* is a no-op when any of the four dimensions is 0.
C22_NearestNeighbourScale ==
    (last.op = "scale" /\ last.method = "Linear") =>
        /\ fault = "none"
        /\ (pre.width >= 1 /\ pre.height >= 1 /\ last.w >= 1 /\ last.h >= 1) =>
              /\ img.width = last.w /\ img.height = last.h
              /\ WellFormed(img)
              /\ \A r \in 0..(last.h - 1), c \in 0..(last.w - 1) :
                     \E sr \in 0..(pre.height - 1), sc \in 0..(pre.width - 1) :
                         /\ sr * last.h <= r * pre.height
                         /\ r * pre.height < (sr + 1) * last.h
                         /\ sc * last.w <= c * pre.width
                         /\ c * pre.width < (sc + 1) * last.w
                         /\ GetPixel(img, r, c) = GetPixel(pre, sr, sc)
        /\ (pre.width = 0 \/ pre.height = 0 \/ last.w = 0 \/ last.h = 0) =>
              img = pre

\* A marked image scaled to another width and height, the mark not in the
\* first row or column.
C22_Witness ==
    /\ last.op = "scale" /\ last.method = "Linear" /\ fault = "none"
    /\ last.w >= 1 /\ last.h >= 1
    /\ last.w # pre.width /\ last.h # pre.height
    /\ \E row \in 1..(pre.height - 1), col \in 1..(pre.width - 1) :
           GetPixel(pre, row, col) # Background
    /\ \E r \in 1..(img.height - 1), c \in 1..(img.width - 1) :
           GetPixel(img, r, c) # Background

\* C23: in bilinear scaling, for every destination pixel the four sampled
\* source coordinates are in bounds: x0 = floor(dst_x * width / new_width)
\* lies in [0, width - 1] and the second sample is x1 = min(x0 + 1,
\* width - 1) (likewise y0, y1 with height), so at the last source column
\* or row the second sample equals the first and nothing is read out of
\* range.
C23_BilinearSamplesInBounds ==
    (/\ last.op = "scale" /\ last.method = "Bilinear"
     /\ pre.width >= 1 /\ pre.height >= 1 /\ last.w >= 1 /\ last.h >= 1) =>
        /\ fault = "none"
        /\ img.width = last.w /\ img.height = last.h
        /\ \A new_x \in 0..(last.w - 1) :
              LET x0 == Sample0(pre.width, last.w, new_x)
                  x1 == Sample1(pre.width, last.w, new_x)
              IN  /\ 0 <= x0 /\ x0 <= pre.width - 1
                  /\ x0 * last.w <= new_x * pre.width
                  /\ new_x * pre.width < (x0 + 1) * last.w
                  /\ x1 = IF x0 + 1 <= pre.width - 1 THEN x0 + 1 ELSE pre.width - 1
                  /\ x0 = pre.width - 1 => x1 = x0
        /\ \A new_y \in 0..(last.h - 1) :
              LET y0 == Sample0(pre.height, last.h, new_y)
                  y1 == Sample1(pre.height, last.h, new_y)
              IN  /\ 0 <= y0 /\ y0 <= pre.height - 1
                  /\ y0 * last.h <= new_y * pre.height
                  /\ new_y * pre.height < (y0 + 1) * last.h
                  /\ y1 = IF y0 + 1 <= pre.height - 1 THEN y0 + 1 ELSE pre.height - 1
                  /\ y0 = pre.height - 1 => y1 = y0

\* A bilinear scale to a larger width and height, where the last target
\* column samples the last source column twice.
C23_Witness ==
    /\ last.op = "scale" /\ last.method = "Bilinear" /\ fault = "none"
    /\ pre.width >= 2 /\ pre.height >= 2
    /\ last.w > pre.width /\ last.h > pre.height
    /\ Sample0(pre.width, last.w, last.w - 1) = pre.width - 1
    /\ Sample1(pre.width, last.w, last.w - 1) = pre.width - 1

---------------------------------------------------------------------------
(* Sequences of public operations that are all called with valid          *)
(* arguments, from images without an empty side.                           *)

WidthMethods == {"Left", "Right", "LeftRight"}
HeightMethods == {"Top", "Bottom", "TopBottom"}

\* The recorded call was made with valid arguments: positive targets not
\* above the current dimensions for the crops and the seam carver, a
\* rectangle inside the image, positive targets for scale and resize, and
\* crop methods of the right axis.
ValidCall ==
    LET width_ok  == 1 <= last.w /\ last.w <= pre.width
        height_ok == 1 <= last.h /\ last.h <= pre.height
    IN  CASE last.op \in {"crop_left", "crop_right", "seam_carve_width"} -> width_ok
          [] last.op \in {"crop_top", "crop_bottom", "seam_carve_height"} -> height_ok
          [] last.op = "seam_carve" -> width_ok /\ height_ok
          [] last.op = "crop" ->
                /\ width_ok /\ height_ok
                /\ last.x = -1 \/ last.x + last.w <= pre.width
                /\ last.y = -1 \/ last.y + last.h <= pre.height
          [] last.op = "crop_rect" ->
                /\ width_ok /\ height_ok
                /\ last.x + last.w <= pre.width
                /\ last.y + last.h <= pre.height
          [] last.op = "crop_width" -> width_ok /\ last.method \in WidthMethods
          [] last.op = "crop_height" -> height_ok /\ last.method \in HeightMethods
          [] last.op = "scale" -> last.w >= 1 /\ last.h >= 1
          [] last.op = "resize" ->
                /\ last.w >= 1 /\ last.h >= 1
                /\ last.crop_x \in WidthMethods
                /\ last.crop_y \in HeightMethods
          [] last.op = "remove_vertical_seam" -> pre.width >= 2
          [] OTHER -> TRUE

InitValid ==
    /\ InitOps
    /\ img.width >= 1
    /\ img.height >= 1

NextValid ==
    \/ Resume
    \/ CropOp /\ ValidCall'
    \/ CropLeftOp /\ ValidCall'
    \/ CropRightOp /\ ValidCall'
    \/ CropTopOp /\ ValidCall'
    \/ CropBottomOp /\ ValidCall'
    \/ CropRectOp /\ ValidCall'
    \/ CropWidthOp /\ ValidCall'
    \/ CropHeightOp /\ ValidCall'
    \/ ScaleOp /\ ValidCall'
    \/ ResizeOp /\ ValidCall'
    \/ RotateLeftOp
    \/ RotateRightOp
    \/ MirrorXOp
    \/ MirrorYOp
    \/ TransposeOp
    \/ RemoveVerticalSeamOp /\ ValidCall'
    \/ SeamCarveWidthOp /\ ValidCall'
    \/ SeamCarveHeightOp /\ ValidCall'
    \/ SeamCarveOp /\ ValidCall'

SpecValid == InitValid /\ [][NextValid]_vars

\* C24: starting from any well-formed image with width, height >= 1, no
\* finite sequence of public Image operations called with valid arguments
\* ever reaches an internal fault such as an out-of-range matrix or slice
\* index or a failed assertion.
C24_NoInternalFault == fault = "none"

\* The images such sequences hold never get an empty side.
C24_NoEmptySide == fault = "none" => img.width >= 1 /\ img.height >= 1

---------------------------------------------------------------------------
(* The end-to-end check of the seam carver: 5 x 5 images of one colour    *)
(* with a single pixel of another colour, carved in width.                 *)

Swatches == {PixelRGB(0, 0, 0), PixelRGB(1, 2, 3), PixelRGB(3, 1, 0), PixelRGB(9, 9, 9)}

BrightImage(rc, bg, fg) ==
    FromPixels(5, 5, [c \in Cells(5, 5) |-> IF c = rc THEN fg ELSE bg])

InitBright ==
    /\ img \in { BrightImage(t[1], t[2], t[3]) :
                   t \in { u \in Cells(5, 5) \X Swatches \X Swatches : u[2] # u[3] } }
    /\ pre = img
    /\ last = Call("none", -1, -1)
    /\ fault = "none"
    /\ removals = 0

NextBright == Resume \/ SeamCarveWidthOp

SpecBright == InitBright /\ [][NextBright]_vars

\* The 5 x 5 image carved to width 4 had its one bright pixel at rc, and
\* some connected top-to-bottom path avoids rc.
CarvedBright(rc, bg, fg) ==
    /\ bg # fg
    /\ last.op = "seam_carve_width" /\ last.w = 4
    /\ pre = BrightImage(rc, bg, fg)
    /\ \E p \in Paths(5, 5) : p[rc[1] + 1] # rc[2]

\* The bright pixel is still in its row, at its column or one to the left.
BrightKept(rc, fg) ==
    /\ fault = "none"
    /\ \E col \in {rc[2] - 1, rc[2]} \cap (0..(img.width - 1)) :
           GetPixel(img, rc[1], col) = fg

\* C4: seam_carve_width to width 4 of a 5 x 5 image with a uniform
\* background and one bright pixel at any position but the centre, which
\* some connected top-to-bottom path avoids, keeps the bright pixel: its
\* RGB triple is in its row, at its column or one column to the left.
C4_BrightPixelKept ==
    \A rc \in Cells(5, 5) \ {<<2, 2>>}, bg \in Swatches, fg \in Swatches :
        CarvedBright(rc, bg, fg) => BrightKept(rc, fg)

====
